---- MODULE Spec2Model ----
(***************************************************************************)
(* Model of digup: the digest-file parser (at the level of parsed lines),  *)
(* the directory walker, the file and symlink classifiers, the review      *)
(* commands, the serializer and the red-black tree that backs the path     *)
(* table (g_filelist) and the digest index (g_filedigestmap).              *)
(*                                                                         *)
(* Strings are sequences of one-character strings.  A digest is a record   *)
(* [size, data]: size is the byte length, data a natural number standing   *)
(* for the big-endian value of the bytes, so that memcmp order is numeric  *)
(* order.  A node pointer is an index into the node sequence of its tree,  *)
(* NULL being 0.  A pointer to a string or to a digest is a sequence of    *)
(* length at most one: << >> is the null pointer, << v >> points at v.     *)
(***************************************************************************)
EXTENDS Integers, Sequences, FiniteSets, TLC

NULL == 0

(***************************************************************************)
(* C library string functions.                                             *)
(***************************************************************************)

\* the characters used by the model, in increasing byte value
CharOrder == <<"\n", "\r", "*", ".", "/", "1", "2", "5", "6", "8", "\\",
              "a", "b", "c", "d", "h", "m", "n", "s", "t", "u", "x">>

Ord(c) == CHOOSE i \in 1..Len(CharOrder) : CharOrder[i] = c

RECURSIVE strcmp(_, _)
strcmp(a, b) ==
    IF Len(a) = 0 /\ Len(b) = 0 THEN 0
    ELSE IF Len(a) = 0 THEN -1
    ELSE IF Len(b) = 0 THEN 1
    ELSE IF Ord(Head(a)) < Ord(Head(b)) THEN -1
    ELSE IF Ord(Head(a)) > Ord(Head(b)) THEN 1
    ELSE strcmp(Tail(a), Tail(b))

\* strstr(haystack, needle) != NULL
strstr(h, n) ==
    \E i \in 0..(Len(h) - Len(n)) : SubSeq(h, i + 1, i + Len(n)) = n

(***************************************************************************)
(* digest.c: comparison of digest results.                                 *)
(***************************************************************************)

digest_equal(a, b) ==
    IF a.size # b.size THEN FALSE ELSE a.data = b.data

digest_cmp(a, b) ==
    IF a.size # b.size THEN a.size - b.size
    ELSE IF a.data < b.data THEN -1
    ELSE IF a.data > b.data THEN 1
    ELSE 0

rbtree_string_cmp_swapped(a, b) == strcmp(b, a)

rbtree_string_cmp(a, b) == strcmp(a, b)

rbtree_digest_result_cmp(a, b) == digest_cmp(a, b)

(***************************************************************************)
(* rbtree.c.  A tree is [cmp, nodes, nil, root, size]; nodes is the heap   *)
(* of rb_node structs, nil and root are the indices of the two sentinels.  *)
(***************************************************************************)

compare_keys(tree, a, b) ==
    IF tree.cmp = "string" THEN rbtree_string_cmp(a, b)
    ELSE rbtree_digest_result_cmp(a, b)

rb_create(cmp) ==
    [cmp   |-> cmp,
     nodes |-> << [key |-> 0, value |-> 0, red |-> 0, left |-> 1, right |-> 1, parent |-> 1],
                  [key |-> 0, value |-> 0, red |-> 0, left |-> 1, right |-> 1, parent |-> 1] >>,
     nil   |-> 1,
     root  |-> 2,
     size  |-> 0]

rb_isempty(tree) == tree.nodes[tree.root].left = tree.nil

rb_size(tree) == tree.size

RECURSIVE rb_leftmost(_, _)
rb_leftmost(tree, x) ==
    IF tree.nodes[x].left # tree.nil THEN rb_leftmost(tree, tree.nodes[x].left) ELSE x

rb_begin(tree) == rb_leftmost(tree, tree.nodes[tree.root].left)

rb_end(tree) == tree.nil

rb_rotate_left(tree, x) ==
    LET y == tree.nodes[x].right
        b == tree.nodes[tree.nodes[x].right].left
        p == tree.nodes[x].parent
    IN  [tree EXCEPT !.nodes =
            [@ EXCEPT ![x].right = b,
                      ![b].parent = IF b # tree.nil THEN x ELSE @,
                      ![y].parent = p,
                      ![p] = IF x = @.left THEN [@ EXCEPT !.left = y]
                                           ELSE [@ EXCEPT !.right = y],
                      ![y].left = x,
                      ![x].parent = y]]

rb_rotate_right(tree, y) ==
    LET x == tree.nodes[y].left
        b == tree.nodes[tree.nodes[y].left].right
        p == tree.nodes[y].parent
    IN  [tree EXCEPT !.nodes =
            [@ EXCEPT ![y].left = b,
                      ![b].parent = IF tree.nil # b THEN y ELSE @,
                      ![x].parent = p,
                      ![p] = IF y = @.left THEN [@ EXCEPT !.left = x]
                                           ELSE [@ EXCEPT !.right = x],
                      ![x].right = y,
                      ![y].parent = x]]

\* the while loop of rb_insert_helper: returns the parent y of the new leaf
RECURSIVE rb_insert_descend(_, _, _, _)
rb_insert_descend(tree, zkey, x, y) ==
    IF x = tree.nil THEN y
    ELSE IF compare_keys(tree, tree.nodes[x].key, zkey) > 0
         THEN rb_insert_descend(tree, zkey, tree.nodes[x].left, x)
         ELSE rb_insert_descend(tree, zkey, tree.nodes[x].right, x)

rb_insert_link_equal_left(tree, z, y) ==
    [tree EXCEPT !.nodes =
        [@ EXCEPT ![z].left = tree.nil, ![z].right = tree.nil, ![z].parent = y,
                  ![y] = IF y = tree.root
                            \/ compare_keys(tree, tree.nodes[y].key, tree.nodes[z].key) >= 0
                         THEN [@ EXCEPT !.left = z]
                         ELSE [@ EXCEPT !.right = z]]]

\* the assignments of rb_insert_helper once the parent y of z is known
rb_insert_link(tree, z, y) ==
    [tree EXCEPT !.nodes =
        [@ EXCEPT ![z].left = tree.nil, ![z].right = tree.nil, ![z].parent = y,
                  ![y] = IF y = tree.root
                            \/ compare_keys(tree, tree.nodes[y].key, tree.nodes[z].key) > 0
                         THEN [@ EXCEPT !.left = z]
                         ELSE [@ EXCEPT !.right = z]]]

\* z is the index of the node already allocated with its key and value
rb_insert_helper(tree, z) ==
    rb_insert_link(tree, z, rb_insert_descend(tree, tree.nodes[z].key,
                                              tree.nodes[tree.root].left, tree.root))

\* x->parent->red = 0; x->parent->parent->red = 1 in the loop of rb_insert
rb_insert_recolor(tree, x) ==
    [tree EXCEPT !.nodes = [@ EXCEPT ![tree.nodes[x].parent].red = 0,
                                     ![tree.nodes[tree.nodes[x].parent].parent].red = 1]]

\* the rebalancing while loop of rb_insert
RECURSIVE rb_insert_fixup(_, _)
rb_insert_fixup(tree, x) ==
    LET p == tree.nodes[x].parent
        g == tree.nodes[tree.nodes[x].parent].parent
        l == tree.nodes[tree.nodes[tree.nodes[x].parent].parent].left
        r == tree.nodes[tree.nodes[tree.nodes[x].parent].parent].right
    IN  IF tree.nodes[p].red = 0 THEN tree
        ELSE IF p = l
        THEN IF tree.nodes[r].red = 1
             THEN rb_insert_fixup(
                    [tree EXCEPT !.nodes = [@ EXCEPT ![p].red = 0, ![r].red = 0, ![g].red = 1]], g)
             ELSE IF x = tree.nodes[p].right
             THEN rb_insert_fixup(
                    rb_rotate_right(rb_insert_recolor(rb_rotate_left(tree, p), p), g), p)
             ELSE rb_insert_fixup(rb_rotate_right(rb_insert_recolor(tree, x), g), x)
        ELSE IF tree.nodes[l].red = 1
             THEN rb_insert_fixup(
                    [tree EXCEPT !.nodes = [@ EXCEPT ![p].red = 0, ![l].red = 0, ![g].red = 1]], g)
             ELSE IF x = tree.nodes[p].left
             THEN rb_insert_fixup(
                    rb_rotate_left(rb_insert_recolor(rb_rotate_right(tree, p), p), g), p)
             ELSE rb_insert_fixup(rb_rotate_left(rb_insert_recolor(tree, x), g), x)

\* malloc of the node x with its key and value
rb_insert_alloc(tree, key, value) ==
    [tree EXCEPT !.nodes = Append(@, [key |-> key, value |-> value, red |-> 0,
                                      left |-> tree.nil, right |-> tree.nil,
                                      parent |-> tree.nil])]

\* tree->root->left->red = 0; ++tree->size
rb_insert_finish(tree) ==
    [tree EXCEPT !.nodes = [@ EXCEPT ![tree.nodes[tree.root].left].red = 0],
                 !.size = @ + 1]

rb_insert(tree, key, value) ==
    rb_insert_finish(
        rb_insert_fixup(
            [rb_insert_helper(rb_insert_alloc(tree, key, value), Len(tree.nodes) + 1)
                EXCEPT !.nodes[Len(tree.nodes) + 1].red = 1],
            Len(tree.nodes) + 1))

RECURSIVE rb_successor_up(_, _, _)
rb_successor_up(tree, x, y) ==
    IF x = tree.nodes[y].right THEN rb_successor_up(tree, y, tree.nodes[y].parent)
    ELSE IF y = tree.root THEN tree.nil ELSE y

rb_successor(tree, x) ==
    IF tree.nil # tree.nodes[x].right
    THEN rb_leftmost(tree, tree.nodes[x].right)
    ELSE rb_successor_up(tree, x, tree.nodes[x].parent)

\* first while loop of rb_find: NULL or a node whose key compares equal
RECURSIVE rb_find_descend(_, _, _)
rb_find_descend(tree, key, x) ==
    LET cmpval == compare_keys(tree, tree.nodes[x].key, key)
    IN  IF cmpval = 0 THEN x
        ELSE LET c == IF cmpval > 0 THEN tree.nodes[x].left ELSE tree.nodes[x].right
             IN  IF c = tree.nil THEN NULL ELSE rb_find_descend(tree, key, c)

\* second while loop of rb_find: follow left children with an equal key
RECURSIVE rb_find_left(_, _, _)
rb_find_left(tree, key, x) ==
    LET l == tree.nodes[x].left
    IN  IF l # tree.nil /\ compare_keys(tree, key, tree.nodes[l].key) = 0
        THEN rb_find_left(tree, key, l)
        ELSE x

rb_find(tree, key) ==
    LET x == tree.nodes[tree.root].left
    IN  IF x = tree.nil THEN NULL
        ELSE LET f == rb_find_descend(tree, key, x)
             IN  IF f = NULL THEN NULL ELSE rb_find_left(tree, key, f)

\* the first branch of the loop of rb_delete_fixup, x a left child of p, up
\* to the test of the children of w
rb_delete_fixup_left_red(tree, p) ==
    IF tree.nodes[tree.nodes[p].right].red = 1
    THEN rb_rotate_left([tree EXCEPT !.nodes = [@ EXCEPT ![tree.nodes[p].right].red = 0,
                                                         ![p].red = 1]], p)
    ELSE tree

\* if (!w->right->red) { ... rb_rotate_right(tree, w); }
rb_delete_fixup_left_near(tree, w) ==
    IF tree.nodes[tree.nodes[w].right].red = 0
    THEN rb_rotate_right([tree EXCEPT !.nodes = [@ EXCEPT ![tree.nodes[w].left].red = 0,
                                                          ![w].red = 1]], w)
    ELSE tree

\* w->red = x->parent->red; ... rb_rotate_left(tree, x->parent)
rb_delete_fixup_left_far(tree, p, w) ==
    rb_rotate_left([tree EXCEPT !.nodes = [@ EXCEPT ![w].red = tree.nodes[p].red,
                                                    ![p].red = 0,
                                                    ![tree.nodes[w].right].red = 0]], p)

\* the second branch, with left and right switched
rb_delete_fixup_right_red(tree, p) ==
    IF tree.nodes[tree.nodes[p].left].red = 1
    THEN rb_rotate_right([tree EXCEPT !.nodes = [@ EXCEPT ![tree.nodes[p].left].red = 0,
                                                          ![p].red = 1]], p)
    ELSE tree

rb_delete_fixup_right_near(tree, w) ==
    IF tree.nodes[tree.nodes[w].left].red = 0
    THEN rb_rotate_left([tree EXCEPT !.nodes = [@ EXCEPT ![tree.nodes[w].right].red = 0,
                                                         ![w].red = 1]], w)
    ELSE tree

rb_delete_fixup_right_far(tree, p, w) ==
    rb_rotate_right([tree EXCEPT !.nodes = [@ EXCEPT ![w].red = tree.nodes[p].red,
                                                     ![p].red = 0,
                                                     ![tree.nodes[w].left].red = 0]], p)

\* the while loop of rb_delete_fixup and the x->red = 0 after it; root is
\* the value tree->root->left had when rb_delete_fixup was entered
RECURSIVE rb_delete_fixup_loop(_, _, _)

\* the rest of an iteration once a red w has been rotated away
rb_delete_fixup_sibling(tree, p, w, left, root) ==
    IF tree.nodes[tree.nodes[w].right].red = 0 /\ tree.nodes[tree.nodes[w].left].red = 0
    THEN rb_delete_fixup_loop([tree EXCEPT !.nodes[w].red = 1], p, root)
    ELSE IF left
    THEN rb_delete_fixup_loop(
             rb_delete_fixup_left_far(rb_delete_fixup_left_near(tree, w), p,
                                      rb_delete_fixup_left_near(tree, w).nodes[p].right),
             root, root)
    ELSE rb_delete_fixup_loop(
             rb_delete_fixup_right_far(rb_delete_fixup_right_near(tree, w), p,
                                       rb_delete_fixup_right_near(tree, w).nodes[p].left),
             root, root)

rb_delete_fixup_loop(tree, x, root) ==
    IF tree.nodes[x].red = 1 \/ root = x
    THEN [tree EXCEPT !.nodes[x].red = 0]
    ELSE IF x = tree.nodes[tree.nodes[x].parent].left
    THEN rb_delete_fixup_sibling(
             rb_delete_fixup_left_red(tree, tree.nodes[x].parent), tree.nodes[x].parent,
             rb_delete_fixup_left_red(tree, tree.nodes[x].parent).nodes[tree.nodes[x].parent].right,
             TRUE, root)
    ELSE rb_delete_fixup_sibling(
             rb_delete_fixup_right_red(tree, tree.nodes[x].parent), tree.nodes[x].parent,
             rb_delete_fixup_right_red(tree, tree.nodes[x].parent).nodes[tree.nodes[x].parent].left,
             FALSE, root)

rb_delete_fixup(tree, x) == rb_delete_fixup_loop(tree, x, tree.nodes[tree.root].left)

\* rb_delete: the node y to splice out and its child x
rb_delete_y_self(tree, z) == z

rb_delete_y(tree, z) ==
    IF tree.nodes[z].left = tree.nil \/ tree.nodes[z].right = tree.nil THEN z
    ELSE rb_successor(tree, z)

rb_delete_x(tree, y) ==
    IF tree.nodes[y].left = tree.nil THEN tree.nodes[y].right ELSE tree.nodes[y].left

\* x takes the place of y below the parent of y
rb_delete_splice(tree, y, x) ==
    [tree EXCEPT !.nodes =
        [@ EXCEPT ![x].parent = tree.nodes[y].parent,
                  ![tree.nodes[y].parent] =
                      IF tree.root = tree.nodes[y].parent THEN [@ EXCEPT !.left = x]
                      ELSE IF y = @.left THEN [@ EXCEPT !.left = x]
                      ELSE [@ EXCEPT !.right = x]]]

rb_delete_rebalance_never(tree, y, x) == tree

\* if (!(y->red)) rb_delete_fixup(tree, x)
rb_delete_rebalance(tree, y, x) ==
    IF tree.nodes[y].red = 0 THEN rb_delete_fixup(tree, x) ELSE tree

\* y takes the place of z
rb_delete_replace(tree, z, y) ==
    [tree EXCEPT !.nodes =
        [@ EXCEPT ![y].left = tree.nodes[z].left,
                  ![y].right = tree.nodes[z].right,
                  ![y].parent = tree.nodes[z].parent,
                  ![y].red = tree.nodes[z].red,
                  ![tree.nodes[z].right].parent = y,
                  ![tree.nodes[z].left].parent = y,
                  ![tree.nodes[z].parent] = IF z = @.left THEN [@ EXCEPT !.left = y]
                                            ELSE [@ EXCEPT !.right = y]]]

\* free(z): the node stays in the heap without links; --tree->size
rb_delete_free(tree, z) ==
    [tree EXCEPT !.nodes[z] = [@ EXCEPT !.left = NULL, !.right = NULL, !.parent = NULL,
                                        !.red = 0],
                 !.size = @ - 1]

rb_delete_node(tree, z, y, x) ==
    IF y # z
    THEN rb_delete_free(
             rb_delete_replace(rb_delete_rebalance(rb_delete_splice(tree, y, x), y, x), z, y), z)
    ELSE rb_delete_free(rb_delete_rebalance(rb_delete_splice(tree, y, x), y, x), y)

rb_delete(tree, z) ==
    rb_delete_node(tree, z, rb_delete_y(tree, z), rb_delete_x(tree, rb_delete_y(tree, z)))

\* the test at a nil child: [ok, blackmatch, count]
rb_verify_leaf(blacks, blackmatch, count) ==
    IF blackmatch < 0 THEN [ok |-> TRUE, blackmatch |-> blacks, count |-> count]
    ELSE [ok |-> blackmatch = blacks, blackmatch |-> blackmatch, count |-> count]

\* rb_verify_helper: [ok, blackmatch, count] with *blackmatch and *count as
\* the call leaves them
RECURSIVE rb_verify_helper(_, _, _, _, _), rb_verify_right(_, _, _, _)
rb_verify_helper(tree, z, blacks, blackmatch, count) ==
    IF tree.nodes[z].red = 1
       /\ (tree.nodes[tree.nodes[z].left].red = 1 \/ tree.nodes[tree.nodes[z].right].red = 1)
    THEN [ok |-> FALSE, blackmatch |-> blackmatch, count |-> count]
    ELSE IF count + 1 > tree.size
    THEN [ok |-> FALSE, blackmatch |-> blackmatch, count |-> count + 1]
    ELSE rb_verify_right(tree, z, blacks + (IF tree.nodes[z].red = 1 THEN 0 ELSE 1),
             IF tree.nodes[z].left # tree.nil
             THEN rb_verify_helper(tree, tree.nodes[z].left,
                                   blacks + (IF tree.nodes[z].red = 1 THEN 0 ELSE 1),
                                   blackmatch, count + 1)
             ELSE rb_verify_leaf(blacks + (IF tree.nodes[z].red = 1 THEN 0 ELSE 1),
                                 blackmatch, count + 1))

\* the second half of rb_verify_helper, l the result for the left child
rb_verify_right(tree, z, blacks, l) ==
    IF ~l.ok THEN l
    ELSE IF tree.nodes[z].right # tree.nil
    THEN rb_verify_helper(tree, tree.nodes[z].right, blacks, l.blackmatch, l.count)
    ELSE rb_verify_leaf(blacks, l.blackmatch, l.count)

rb_verify(tree) ==
    IF tree.nodes[tree.nil].red = 1 THEN 0
    ELSE IF tree.nodes[tree.nodes[tree.root].left].red = 1 THEN 0
    ELSE LET r == IF tree.nodes[tree.root].left # tree.nil
                  THEN rb_verify_helper(tree, tree.nodes[tree.root].left, 0, -1, 0)
                  ELSE [ok |-> TRUE, blackmatch |-> -1, count |-> 0]
         IN  IF ~r.ok THEN 0
             ELSE IF r.count # tree.size THEN 0
             ELSE 1

(***************************************************************************)
(* digup.c: escape codec.                                                  *)
(***************************************************************************)

\* the for loop of unescape_filename from index i: << ok, decoded suffix >>
RECURSIVE unescape_from(_, _)
unescape_from(str, i) ==
    IF i > Len(str) THEN << TRUE, << >> >>
    ELSE IF str[i] = "\\"
    THEN IF i + 1 > Len(str) THEN << FALSE, << >> >>
         ELSE IF str[i + 1] = "n"
         THEN LET r == unescape_from(str, i + 2) IN << r[1], << "\n" >> \o r[2] >>
         ELSE IF str[i + 1] = "\\"
         THEN LET r == unescape_from(str, i + 2) IN << r[1], << "\\" >> \o r[2] >>
         ELSE << FALSE, << >> >>
    ELSE LET r == unescape_from(str, i + 1) IN << r[1], << str[i] >> \o r[2] >>

\* << return value, string left in the buffer >> (the buffer is unspecified on failure)
unescape_filename_lenient(str) == << TRUE, unescape_from(str, 1)[2] >>

unescape_filename(str) == unescape_from(str, 1)

RECURSIVE escape_from(_, _)
escape_from(str, i) ==
    IF i > Len(str) THEN << >>
    ELSE IF str[i] = "\\" THEN << "\\", "\\" >> \o escape_from(str, i + 1)
    ELSE IF str[i] = "\n" THEN << "\\", "n" >> \o escape_from(str, i + 1)
    ELSE << str[i] >> \o escape_from(str, i + 1)

needescape_filename_newline(str) ==
    LET needescape == Cardinality({i \in 1..Len(str) : str[i] = "\n"})
    IN  IF needescape = 0 THEN << FALSE, str >>
        ELSE << TRUE, escape_from(str, 1) >>

\* << return value, string now pointed to by *str >>
needescape_filename(str) ==
    LET needescape == Cardinality({i \in 1..Len(str) : str[i] = "\\" \/ str[i] = "\n"})
    IN  IF needescape = 0 THEN << FALSE, str >>
        ELSE << TRUE, escape_from(str, 1) >>

(***************************************************************************)
(* digup.c: enum DigestType, enum FileStatus, struct FileInfo.             *)
(***************************************************************************)

DigestTypes == {"DT_NONE", "DT_MD5", "DT_SHA1", "DT_SHA256", "DT_SHA512"}

FileStatus == {"FS_UNSEEN", "FS_SEEN", "FS_NEW", "FS_TOUCHED", "FS_CHANGED",
               "FS_ERROR", "FS_COPIED", "FS_RENAMED", "FS_OLDPATH", "FS_SKIPPED"}

\* digest size in bytes of each algorithm
DigestSize(type) ==
    CASE type = "DT_MD5"    -> 16
      [] type = "DT_SHA1"   -> 20
      [] type = "DT_SHA256" -> 32
      [] type = "DT_SHA512" -> 64
      [] OTHER              -> 0

\* memset(&info, 0, sizeof(struct FileInfo)); info.status = status
FileInfo0(status) ==
    [status |-> status, mtime |-> 0, size |-> 0, error |-> << >>,
     digest |-> << >>, symlink |-> << >>, oldpath |-> << >>]

(***************************************************************************)
(* The file system.  fs is a sequence of inodes; inode 1 is the current    *)
(* directory.  An inode is [type, parent, entries, mtime, size, data, err,  *)
(* target, lines]: entries maps the names of a directory to inodes, data    *)
(* stands for the bytes of a regular file, err is the way reading it fails  *)
(* ("ok" when it does not), target is the text of a symbolic link and       *)
(* lines the content of a digest file as a sequence of lines.               *)
(***************************************************************************)

\* split a path at its slashes; empty components are dropped
RECURSIVE SplitPath(_, _)
SplitPath(path, cur) ==
    IF Len(path) = 0 THEN (IF Len(cur) = 0 THEN << >> ELSE << cur >>)
    ELSE IF Head(path) = "/"
    THEN (IF Len(cur) = 0 THEN << >> ELSE << cur >>) \o SplitPath(Tail(path), << >>)
    ELSE SplitPath(Tail(path), Append(cur, Head(path)))

\* number of symbolic links followed in one lookup before ELOOP
MaxSymlinks == 4

\* path lookup from directory dir: the inode found, or 0 (ENOENT, ENOTDIR, ELOOP)
RECURSIVE namei(_, _, _, _, _)
namei(f, dir, comps, followlast, budget) ==
    IF Len(comps) = 0 THEN dir
    ELSE IF f[dir].type # "dir" THEN 0
    ELSE LET c == Head(comps)
             rest == Tail(comps)
         IN  IF c = << "." >> THEN namei(f, dir, rest, followlast, budget)
             ELSE IF c = << ".", "." >> THEN namei(f, f[dir].parent, rest, followlast, budget)
             ELSE IF c \notin DOMAIN f[dir].entries THEN 0
             ELSE LET i == f[dir].entries[c]
                  IN  IF f[i].type = "symlink" /\ (Len(rest) > 0 \/ followlast)
                      THEN IF budget = 0 THEN 0
                           ELSE namei(f, dir, SplitPath(f[i].target, << >>) \o rest,
                                      followlast, budget - 1)
                      ELSE IF Len(rest) = 0 THEN i
                      ELSE namei(f, i, rest, followlast, budget)

\* struct stat of an inode
StatOf(f, i) ==
    [st_dev |-> 1, st_ino |-> i, st_mode |-> f[i].type,
     st_mtime |-> f[i].mtime, st_size |-> f[i].size]

\* lstat(path): 0 on failure
mylstat(f, path) == namei(f, 1, SplitPath(path, << >>), FALSE, MaxSymlinks)

\* stat(path): 0 on failure
mystat(f, path) == namei(f, 1, SplitPath(path, << >>), TRUE, MaxSymlinks)

\* access(path, F_OK) == 0
access(f, path) == mystat(f, path) # 0

(***************************************************************************)
(* State.                                                                  *)
(***************************************************************************)

VARIABLES
    gopt,             \* the gopt_* options, one field each
    g_filelist,       \* red-black tree: path -> struct FileInfo
    g_filedigestmap,  \* red-black tree: digest -> path
    counters,         \* the g_filelist_* status counters, one field each
    fs,               \* the file system
    tempinfo,         \* read_digestfile: metadata buffered for the next record
    linenum,          \* read_digestfile: number of lines read
    dirstack,         \* (dev, ino) of the directories being scanned
    frames,           \* call stack of scan_directory: [path, st, filenames, fi]
    listing,          \* output of the last review command: [cmd, lines]
    retcode,          \* exit status of the process
    stderr,           \* diagnostics of the scan: [msg, path]
    run,              \* number of the invocation of the program
    str1,             \* test_digup.c: [p, s, ret], the string s made from p
    pc                \* position of main

\* the value of str1 outside of test_digup.c
NoString == [p |-> << >>, s |-> << >>, ret |-> FALSE]

vars == << gopt, g_filelist, g_filedigestmap, counters, fs, tempinfo, linenum,
           dirstack, frames, listing, retcode, stderr, run, str1, pc >>

g_filelist_seen    == counters.seen
g_filelist_new     == counters.new
g_filelist_touched == counters.touched
g_filelist_changed == counters.changed
g_filelist_error   == counters.error
g_filelist_copied  == counters.copied
g_filelist_renamed == counters.renamed
g_filelist_oldpath == counters.oldpath
g_filelist_skipped == counters.skipped

\* the number of bits of an unsigned int, scaled down from 32 so that
\* numbers of 2^UIntBits and more are values of the model; long and time_t
\* are wider and are not cut
UIntBits == 4

\* conversion to unsigned int: the low UIntBits bits
UInt(x) == x % (2 ^ UIntBits)

\* ++counter on an unsigned int
Incr(c, field) == [c EXCEPT ![field] = UInt(@ + 1)]

\* the struct FileInfo a node of g_filelist points to
InfoAt(filelist, node) == filelist.nodes[node].value

SetInfo(filelist, node, info) == [filelist EXCEPT !.nodes[node].value = info]

(***************************************************************************)
(* digup.c: parse_digestline.  A line of the digest file is one of         *)
(*   [kind |-> "comment"]                 a line starting with # but not #: *)
(*   [kind |-> "meta", items |-> <<..>>]  a #: line, its key/value items    *)
(*   [kind |-> "digest", escaped, sep, digest, type, path]  anything else   *)
(* An item is [key, ok, num, str]: key names the branch the word selects,   *)
(* ok tells whether the syntax check of that branch passes, num and str     *)
(* are the number and the text that follow.  For key "crc", str is the     *)
(* CRC value that the eight hex digits after 0x denote.  crc is the CRC of *)
(* the lines before this one.                                               *)
(* The result is [res, tempinfo, gopt, filelist, exit]; exit is "no",       *)
(* "exit0", "exit-1" or "crash".                                            *)
(***************************************************************************)

ParseResult(res, ti, go, fl, ex) ==
    [res |-> res, tempinfo |-> ti, gopt |-> go, filelist |-> fl, exit |-> ex]

\* the commit shared by the symlink and symlink\ branches
parse_commit_symlink(filename, ti, go, fl) ==
    IF rb_find(fl, filename) # NULL
    THEN ParseResult(-1, ti, go, fl, "no")
    ELSE ParseResult(1, ti, go, rb_insert(fl, filename, ti), "no")

\* the while (line[p]) loop over the items of a #: line
RECURSIVE parse_items(_, _, _, _, _, _, _)
parse_items(items, ti, go, fl, crc, answer, ub) ==
    IF Len(items) = 0 THEN ParseResult(0, ti, go, fl, "no")
    ELSE LET it == Head(items)
             rest == Tail(items)
         IN
         IF it.key = "option"
         THEN IF it.ok
              THEN parse_items(rest, ti, [go EXCEPT !.exclude_marker = << it.str >>],
                               fl, crc, answer, ub)
              ELSE ParseResult(-1, ti, go, fl, "no")
         ELSE IF it.key = "mtime"
         THEN IF it.ok
              THEN parse_items(rest, [ti EXCEPT !.mtime = it.num], go, fl, crc, answer, ub)
              ELSE ParseResult(-1, ti, go, fl, "no")
         ELSE IF it.key = "size"
         THEN IF it.ok
              THEN parse_items(rest, [ti EXCEPT !.size = it.num], go, fl, crc, answer, ub)
              ELSE ParseResult(-1, ti, go, fl, "no")
         ELSE IF it.key = "target"
         THEN IF it.ok
              THEN parse_items(rest, [ti EXCEPT !.symlink = << it.str >>], go, fl, crc, answer, ub)
              ELSE ParseResult(-1, ti, go, fl, "no")
         ELSE IF it.key = "target\\"
         THEN IF ~it.ok THEN ParseResult(-1, ti, go, fl, "no")
              ELSE LET u == unescape_filename(it.str)
                   IN  IF u[1]
                       THEN parse_items(rest, [ti EXCEPT !.symlink = << u[2] >>],
                                        go, fl, crc, answer, ub)
                       \* tempinfo->symlink is freed here and freed again by the
                       \* caller: the double free aborts or goes unnoticed
                       ELSE ParseResult(-1, [ti EXCEPT !.symlink = << >>], go, fl,
                                        IF ub THEN "crash" ELSE "no")
         ELSE IF it.key = "symlink"
         THEN IF it.ok THEN parse_commit_symlink(it.str, ti, go, fl)
              ELSE ParseResult(-1, ti, go, fl, "no")
         ELSE IF it.key = "symlink\\"
         THEN IF ~it.ok THEN ParseResult(-1, ti, go, fl, "no")
              ELSE LET u == unescape_filename(it.str)
                   IN  IF u[1] THEN parse_commit_symlink(u[2], ti, go, fl)
                       ELSE ParseResult(-1, ti, go, fl, "no")
         ELSE IF it.key = "crc"
         THEN IF ~it.ok THEN ParseResult(0, ti, go, fl, "no")
              ELSE IF it.str = crc THEN parse_items(rest, ti, go, fl, crc, answer, ub)
              ELSE IF go.batch THEN ParseResult(0, ti, go, fl, "exit-1")
              ELSE IF answer # "y" THEN ParseResult(0, ti, go, fl, "exit-1")
              ELSE parse_items(rest, ti, go, fl, crc, answer, ub)
         ELSE IF it.key = "eof"
         THEN ParseResult(-2, ti, go, fl, "no")
         ELSE ParseResult(-1, ti, go, fl, "no")

\* the digest type selected by the number of hex digits
HexLenType(size) ==
    CASE size = 16 -> "DT_MD5"
      [] size = 20 -> "DT_SHA1"
      [] size = 32 -> "DT_SHA256"
      [] size = 64 -> "DT_SHA512"
      [] OTHER     -> "DT_NONE"

parse_digestline_any_answer(line, ti, go, fl, crc, answer, ub) ==
    IF line.kind = "comment" THEN ParseResult(0, ti, go, fl, "no")
    ELSE IF line.kind = "meta" THEN parse_items(line.items, ti, go, fl, crc, "y", ub)
    ELSE \* a usual digest line
         IF ~line.sep THEN ParseResult(-1, ti, go, fl, "no")
         ELSE LET this_digesttype == HexLenType(line.digest.size)
                  fileinfo == [ti EXCEPT !.digest = << line.digest >>]
                  u == IF line.escaped THEN unescape_filename(line.path)
                       ELSE << TRUE, line.path >>
              IN  IF this_digesttype = "DT_NONE" THEN ParseResult(-1, ti, go, fl, "no")
                  ELSE IF go.digesttype # "DT_NONE" /\ this_digesttype # go.digesttype
                  THEN ParseResult(0, ti, go, fl, "exit0")
                  ELSE IF line.type # " " /\ line.type # "*"
                  THEN ParseResult(-1, ti, go, fl, "no")
                  ELSE IF ~u[1] THEN ParseResult(-1, ti, go, fl, "no")
                  ELSE IF rb_find(fl, u[2]) # NULL THEN ParseResult(-1, ti, go, fl, "no")
                  ELSE ParseResult(1, ti, [go EXCEPT !.digesttype = this_digesttype],
                                   rb_insert(fl, u[2], fileinfo), "no")

parse_digestline(line, ti, go, fl, crc, answer, ub) ==
    IF line.kind = "comment" THEN ParseResult(0, ti, go, fl, "no")
    ELSE IF line.kind = "meta" THEN parse_items(line.items, ti, go, fl, crc, answer, ub)
    ELSE \* a usual digest line
         IF ~line.sep THEN ParseResult(-1, ti, go, fl, "no")
         ELSE LET this_digesttype == HexLenType(line.digest.size)
                  fileinfo == [ti EXCEPT !.digest = << line.digest >>]
                  u == IF line.escaped THEN unescape_filename(line.path)
                       ELSE << TRUE, line.path >>
              IN  IF this_digesttype = "DT_NONE" THEN ParseResult(-1, ti, go, fl, "no")
                  ELSE IF go.digesttype # "DT_NONE" /\ this_digesttype # go.digesttype
                  THEN ParseResult(0, ti, go, fl, "exit0")
                  ELSE IF line.type # " " /\ line.type # "*"
                  THEN ParseResult(-1, ti, go, fl, "no")
                  ELSE IF ~u[1] THEN ParseResult(-1, ti, go, fl, "no")
                  ELSE IF rb_find(fl, u[2]) # NULL THEN ParseResult(-1, ti, go, fl, "no")
                  ELSE ParseResult(1, ti, [go EXCEPT !.digesttype = this_digesttype],
                                   rb_insert(fl, u[2], fileinfo), "no")

(***************************************************************************)
(* digup.c: digest_file, readlink_dup.                                     *)
(***************************************************************************)

\* digest_file2 and digest_file: [ok, digest, error, abort]
digest_file_any_length(f, go, filepath, filesize) ==
    LET i == mystat(f, filepath)
    IN  IF go.digesttype = "DT_NONE"
        THEN [ok |-> FALSE, digest |-> << >>, error |-> << "Invalid digest algorithm." >>,
              abort |-> TRUE]
        ELSE IF i = 0 \/ f[i].err = "open"
        THEN [ok |-> FALSE, digest |-> << >>, error |-> << "Could not open file" >>,
              abort |-> FALSE]
        ELSE IF f[i].err = "read"
        THEN [ok |-> FALSE, digest |-> << >>, error |-> << "Could not read file" >>,
              abort |-> FALSE]
        ELSE [ok |-> TRUE,
              digest |-> << [size |-> DigestSize(go.digesttype), data |-> f[i].data] >>,
              error |-> << >>, abort |-> FALSE]

digest_file(f, go, filepath, filesize) ==
    LET i == mystat(f, filepath)
    IN  IF go.digesttype = "DT_NONE"
        THEN \* assert(0)
             [ok |-> FALSE, digest |-> << >>, error |-> << "Invalid digest algorithm." >>,
              abort |-> TRUE]
        ELSE IF i = 0 \/ f[i].err = "open"
        THEN [ok |-> FALSE, digest |-> << >>, error |-> << "Could not open file" >>,
              abort |-> FALSE]
        ELSE IF f[i].err = "read"
        THEN [ok |-> FALSE, digest |-> << >>, error |-> << "Could not read file" >>,
              abort |-> FALSE]
        ELSE IF (IF f[i].err = "short" THEN f[i].size - 1 ELSE f[i].size) # filesize
        THEN [ok |-> FALSE, digest |-> << >>, error |-> << "Could not read complete file." >>,
              abort |-> FALSE]
        ELSE [ok |-> TRUE,
              digest |-> << [size |-> DigestSize(go.digesttype), data |-> f[i].data] >>,
              error |-> << >>, abort |-> FALSE]

\* readlink_dup: << >> on failure
readlink_dup(f, filepath) ==
    LET i == mylstat(f, filepath)
    IN  IF i = 0 \/ f[i].type # "symlink" \/ f[i].err # "ok" THEN << >>
        ELSE << f[i].target >>

(***************************************************************************)
(* digup.c: process_file.  The result is [filelist, counters, abort].      *)
(***************************************************************************)

labs(x) == IF x < 0 THEN -x ELSE x

\* if (filepath[0] == '.' && filepath[1] == '/') filepath += 2
StripDotSlash(filepath) ==
    IF Len(filepath) >= 2 /\ filepath[1] = "." /\ filepath[2] = "/"
    THEN SubSeq(filepath, 3, Len(filepath))
    ELSE filepath

ProcResult(fl, c, ab) == [filelist |-> fl, counters |-> c, abort |-> ab]

oldpath_unseen_any(fl, filenode) == filenode # NULL

\* the test of process_file before it marks the record of a vanished path
oldpath_unseen(fl, filenode) ==
    filenode # NULL /\ InfoAt(fl, filenode).status = "FS_UNSEEN"

\* the loop over the entries of the digest map that equal the new digest:
\* [filelist, counters, copied, digestiter]
RECURSIVE process_file_oldpaths(_, _, _, _, _, _, _, _)
process_file_oldpaths(f, dm, digest, nodecopy, fl, c, copied, digestiter) ==
    IF nodecopy = rb_end(dm) \/ ~digest_equal(dm.nodes[nodecopy].key, digest)
    THEN [filelist |-> fl, counters |-> c, copied |-> copied, digestiter |-> digestiter]
    ELSE LET next == rb_successor(dm, nodecopy)
             old == dm.nodes[nodecopy].value
         IN  IF access(f, old)
             THEN process_file_oldpaths(f, dm, digest, next, fl, c, TRUE, nodecopy)
             ELSE LET filenode == rb_find(fl, old)
                  IN  IF oldpath_unseen(fl, filenode)
                      THEN process_file_oldpaths(f, dm, digest, next,
                               SetInfo(fl, filenode,
                                       [InfoAt(fl, filenode) EXCEPT !.status = "FS_OLDPATH"]),
                               Incr(c, "oldpath"), copied, digestiter)
                      ELSE process_file_oldpaths(f, dm, digest, next, fl, c,
                                                 copied, digestiter)

file_modified_strict(go, st, fileinfo) ==
    \/ UInt(labs(st.st_mtime - fileinfo.mtime)) >= go.modify_window
    \/ st.st_size # fileinfo.size

\* the test of process_file that sends a recorded file to the digest
\* computation: the mtime or the size moved
file_modified(go, st, fileinfo) ==
    \/ UInt(labs(st.st_mtime - fileinfo.mtime)) > go.modify_window
    \/ st.st_size # fileinfo.size

\* the assignments of process_file to a record whose digest still matches
file_touched(fileinfo, st) ==
    [fileinfo EXCEPT !.status = "FS_TOUCHED", !.mtime = st.st_mtime, !.size = st.st_size]

file_changed_keep(fileinfo, st, filedigest) ==
    [fileinfo EXCEPT !.status = "FS_CHANGED", !.mtime = st.st_mtime, !.size = st.st_size]

\* the assignments of process_file to a record whose digest differs
file_changed(fileinfo, st, filedigest) ==
    [fileinfo EXCEPT !.status = "FS_CHANGED", !.mtime = st.st_mtime, !.size = st.st_size,
                     !.digest = filedigest]

\* the branch of process_file for a path that has a record
process_file_known(f, go, fl, c, filepath, st, fileiter) ==
    LET fileinfo == InfoAt(fl, fileiter)
        d == digest_file(f, go, filepath, st.st_size)
    IN  IF fileinfo.status # "FS_UNSEEN" THEN ProcResult(fl, c, FALSE)
        ELSE IF ~go.fullcheck /\ ~file_modified(go, st, fileinfo)
        THEN ProcResult(SetInfo(fl, fileiter, [fileinfo EXCEPT !.status = "FS_SEEN"]),
                        Incr(c, "seen"), FALSE)
        ELSE IF d.abort THEN ProcResult(fl, c, TRUE)
        ELSE IF ~d.ok
        THEN ProcResult(SetInfo(fl, fileiter,
                            [fileinfo EXCEPT !.status = "FS_ERROR", !.mtime = st.st_mtime,
                                             !.size = st.st_size, !.error = d.error]),
                        Incr(c, "error"), FALSE)
        ELSE IF fileinfo.digest # << >> /\ digest_equal(d.digest[1], fileinfo.digest[1])
        THEN ProcResult(SetInfo(fl, fileiter, file_touched(fileinfo, st)),
                        Incr(c, "touched"), FALSE)
        ELSE ProcResult(SetInfo(fl, fileiter, file_changed(fileinfo, st, d.digest)),
                        Incr(c, "changed"), FALSE)

\* the branch of process_file for a path without a record
process_file_new(f, go, fl, dm, c, filepath, st) ==
    LET fileinfo == [FileInfo0("FS_NEW") EXCEPT !.mtime = st.st_mtime, !.size = st.st_size]
        d == digest_file(f, go, filepath, st.st_size)
    IN  IF d.abort THEN ProcResult(fl, c, TRUE)
        ELSE IF ~d.ok
        THEN ProcResult(rb_insert(fl, filepath,
                            [fileinfo EXCEPT !.status = "FS_ERROR", !.error = d.error]),
                        Incr(c, "error"), FALSE)
        ELSE LET digestiter == rb_find(dm, d.digest[1])
             IN  IF digestiter = NULL
                 THEN ProcResult(rb_insert(fl, filepath, [fileinfo EXCEPT !.digest = d.digest]),
                                 Incr(c, "new"), FALSE)
                 ELSE LET r == process_file_oldpaths(f, dm, d.digest[1], digestiter,
                                                     fl, c, FALSE, digestiter)
                          oldpath == << dm.nodes[r.digestiter].value >>
                      IN  IF r.copied
                          THEN ProcResult(rb_insert(r.filelist, filepath,
                                   [fileinfo EXCEPT !.digest = d.digest,
                                                    !.status = "FS_COPIED",
                                                    !.oldpath = oldpath]),
                                   Incr(r.counters, "copied"), FALSE)
                          ELSE ProcResult(rb_insert(r.filelist, filepath,
                                   [fileinfo EXCEPT !.digest = d.digest,
                                                    !.status = "FS_RENAMED",
                                                    !.oldpath = oldpath]),
                                   Incr(r.counters, "renamed"), FALSE)

process_file(f, go, fl, dm, c, path, st) ==
    LET filepath == StripDotSlash(path)
        fileiter == rb_find(fl, filepath)
    IN  IF strcmp(filepath, go.digestfile[1]) = 0 THEN ProcResult(fl, c, FALSE)
        ELSE IF go.matchpattern # << >> /\ ~strstr(filepath, go.matchpattern[1])
        THEN ProcResult(fl, c, FALSE)
        ELSE IF fileiter # NULL THEN process_file_known(f, go, fl, c, filepath, st, fileiter)
        ELSE process_file_new(f, go, fl, dm, c, filepath, st)

(***************************************************************************)
(* digup.c: process_symlink.                                               *)
(***************************************************************************)

process_symlink_known(f, fl, go, c, filepath, st, fileiter) ==
    LET fileinfo == InfoAt(fl, fileiter)
        linktarget == readlink_dup(f, filepath)
    IN  IF fileinfo.status # "FS_UNSEEN" THEN ProcResult(fl, c, FALSE)
        ELSE IF ~go.fullcheck
                /\ ~(st.st_mtime # fileinfo.mtime \/ st.st_size # fileinfo.size)
        THEN ProcResult(SetInfo(fl, fileiter, [fileinfo EXCEPT !.status = "FS_SEEN"]),
                        Incr(c, "seen"), FALSE)
        ELSE IF linktarget = << >>
        THEN ProcResult(SetInfo(fl, fileiter,
                            [fileinfo EXCEPT !.status = "FS_ERROR", !.mtime = st.st_mtime,
                                             !.size = st.st_size,
                                             !.error = << "Could not read symlink" >>]),
                        Incr(c, "error"), FALSE)
        ELSE IF fileinfo.symlink # << >> /\ strcmp(linktarget[1], fileinfo.symlink[1]) = 0
        THEN ProcResult(SetInfo(fl, fileiter,
                            [fileinfo EXCEPT !.status = "FS_TOUCHED", !.mtime = st.st_mtime,
                                             !.size = st.st_size]),
                        Incr(c, "touched"), FALSE)
        ELSE ProcResult(SetInfo(fl, fileiter,
                            [fileinfo EXCEPT !.status = "FS_CHANGED", !.mtime = st.st_mtime,
                                             !.size = st.st_size, !.symlink = linktarget]),
                        Incr(c, "changed"), FALSE)

process_symlink_new(f, fl, c, filepath, st) ==
    LET fileinfo == [FileInfo0("FS_NEW") EXCEPT !.mtime = st.st_mtime, !.size = st.st_size,
                                                !.symlink = readlink_dup(f, filepath)]
    IN  IF fileinfo.symlink = << >>
        THEN ProcResult(rb_insert(fl, filepath,
                            [fileinfo EXCEPT !.status = "FS_ERROR",
                                             !.error = << "Could not read symlink" >>]),
                        Incr(c, "error"), FALSE)
        ELSE ProcResult(rb_insert(fl, filepath, fileinfo), Incr(c, "new"), FALSE)

process_symlink(f, go, fl, c, path, st) ==
    LET filepath == StripDotSlash(path)
        fileiter == rb_find(fl, filepath)
    IN  IF strcmp(filepath, go.digestfile[1]) = 0 THEN ProcResult(fl, c, FALSE)
        ELSE IF go.matchpattern # << >> /\ ~strstr(filepath, go.matchpattern[1])
        THEN ProcResult(fl, c, FALSE)
        ELSE IF fileiter # NULL
        THEN process_symlink_known(f, fl, go, c, filepath, st, fileiter)
        ELSE process_symlink_new(f, fl, c, filepath, st)

(***************************************************************************)
(* digup.c: review commands and the serializer.                            *)
(***************************************************************************)

filelist_clean_seen(fl, c) == rb_size(fl) = UInt(c.seen)

filelist_clean(fl, c) == rb_size(fl) = UInt(c.seen + c.touched)

filelist_deleted_no_oldpath(fl, c) ==
    UInt(rb_size(fl) - UInt(c.new + c.seen + c.touched + c.changed + c.error
                            + c.renamed + c.copied + c.skipped))

\* the number of records that no counter accounts for
filelist_deleted(fl, c) ==
    UInt(rb_size(fl) - UInt(c.new + c.seen + c.touched + c.changed + c.error
                            + c.renamed + c.copied + c.oldpath + c.skipped))

\* the loop shared by cmd_new, cmd_untouched, ..., cmd_skipped: the keys of the
\* records with the given status, in iteration order
RECURSIVE cmd_list(_, _, _)
cmd_list(fl, node, status) ==
    IF node = rb_end(fl) THEN << >>
    ELSE (IF InfoAt(fl, node).status = status THEN << fl.nodes[node].key >> ELSE << >>)
         \o cmd_list(fl, rb_successor(fl, node), status)

cmd_new(fl)       == cmd_list(fl, rb_begin(fl), "FS_NEW")
cmd_untouched(fl) == cmd_list(fl, rb_begin(fl), "FS_SEEN")
cmd_touched(fl)   == cmd_list(fl, rb_begin(fl), "FS_TOUCHED")
cmd_changed(fl)   == cmd_list(fl, rb_begin(fl), "FS_CHANGED")
cmd_deleted_oldpath(fl) == cmd_list(fl, rb_begin(fl), "FS_OLDPATH")
cmd_deleted(fl)   == cmd_list(fl, rb_begin(fl), "FS_UNSEEN")
cmd_error(fl)     == cmd_list(fl, rb_begin(fl), "FS_ERROR")
cmd_copied(fl)    == cmd_list(fl, rb_begin(fl), "FS_COPIED")
cmd_renamed(fl)   == cmd_list(fl, rb_begin(fl), "FS_RENAMED")
cmd_skipped(fl)   == cmd_list(fl, rb_begin(fl), "FS_SKIPPED")

\* the commands of cmdlist that print a list
ListCommands == {"new", "untouched", "touched", "changed", "copied", "renamed",
                 "deleted", "error", "skipped"}

RunListCommand(cmd, fl) ==
    CASE cmd = "new"       -> cmd_new(fl)
      [] cmd = "untouched" -> cmd_untouched(fl)
      [] cmd = "touched"   -> cmd_touched(fl)
      [] cmd = "changed"   -> cmd_changed(fl)
      [] cmd = "copied"    -> cmd_copied(fl)
      [] cmd = "renamed"   -> cmd_renamed(fl)
      [] cmd = "deleted"   -> cmd_deleted(fl)
      [] cmd = "error"     -> cmd_error(fl)
      [] OTHER             -> cmd_skipped(fl)

Item(key, ok, num, str) == [key |-> key, ok |-> ok, num |-> num, str |-> str]

\* crc32.c: the CRC of buf continued from crc.  The checksum is taken to be
\* free of collisions: its value stands for the lines it was accumulated
\* over, and the initial value 0 for no line at all.
crc32(crc, buf) == Append(crc, buf)

\* the CRC after fprintfcrc has printed the lines, or after getline has
\* read them
RECURSIVE fprintfcrc(_, _)
fprintfcrc(crc, lines) ==
    IF Len(lines) = 0 THEN crc
    ELSE fprintfcrc(crc32(crc, Head(lines)), Tail(lines))

\* the lines cmd_write prints for one record that has a symlink target
write_symlink_lines(filename, fileinfo) ==
    LET t == needescape_filename(fileinfo.symlink[1])
        n == needescape_filename(filename)
    IN  << [kind |-> "meta",
            items |-> << Item("mtime", TRUE, fileinfo.mtime, << >>),
                         Item("size", TRUE, fileinfo.size, << >>),
                         Item(IF t[1] THEN "target\\" ELSE "target", TRUE, 0, t[2]) >>],
           [kind |-> "meta",
            items |-> << Item(IF n[1] THEN "symlink\\" ELSE "symlink", TRUE, 0, n[2]) >>] >>

write_digest_lines_swapped(filename, fileinfo) ==
    LET n == needescape_filename(filename)
    IN  << [kind |-> "meta",
            items |-> << Item("mtime", TRUE, fileinfo.size, << >>),
                         Item("size", TRUE, fileinfo.mtime, << >>) >>],
           [kind |-> "digest", escaped |-> n[1], sep |-> TRUE,
            digest |-> fileinfo.digest[1], type |-> " ", path |-> n[2]] >>

\* the lines cmd_write prints for one record without a symlink target
write_digest_lines(filename, fileinfo) ==
    LET n == needescape_filename(filename)
    IN  << [kind |-> "meta",
            items |-> << Item("mtime", TRUE, fileinfo.mtime, << >>),
                         Item("size", TRUE, fileinfo.size, << >>) >>],
           [kind |-> "digest", escaped |-> n[1], sep |-> TRUE,
            digest |-> fileinfo.digest[1], type |-> " ", path |-> n[2]] >>

write_skips_skipped(fileinfo) ==
    fileinfo.status \in {"FS_UNSEEN", "FS_ERROR", "FS_OLDPATH", "FS_SKIPPED"}

\* the predicate of the three continue statements of cmd_write
write_skips(fileinfo) ==
    \/ fileinfo.status = "FS_UNSEEN"
    \/ fileinfo.status = "FS_ERROR"
    \/ fileinfo.status = "FS_OLDPATH"

\* the for loop of cmd_write from node on: [lines, filelist, crash, keys];
\* keys lists the paths of the records emitted
RECURSIVE write_records(_, _, _, _)
write_records(fl, node, lines, keys) ==
    IF node = rb_end(fl) THEN [lines |-> lines, filelist |-> fl, crash |-> FALSE, keys |-> keys]
    ELSE LET fileinfo == InfoAt(fl, node)
             filename == fl.nodes[node].key
             next == rb_successor(fl, node)
         IN  IF write_skips(fileinfo) THEN write_records(fl, next, lines, keys)
             ELSE IF fileinfo.symlink # << >>
             THEN write_records(
                      \* needescape_filename replaces fileinfo->symlink
                      SetInfo(fl, node, [fileinfo EXCEPT !.symlink =
                                  << needescape_filename(fileinfo.symlink[1])[2] >>]),
                      next, lines \o write_symlink_lines(filename, fileinfo),
                      Append(keys, filename))
             ELSE IF fileinfo.digest = << >>
             THEN \* digest_bin2hex reads through a null pointer
                  [lines |-> Append(lines, write_digest_lines(filename,
                                 [fileinfo EXCEPT !.digest = << [size |-> 0, data |-> 0] >>])[1]),
                   filelist |-> fl, crash |-> TRUE, keys |-> keys]
             ELSE write_records(fl, next, lines \o write_digest_lines(filename, fileinfo),
                                Append(keys, filename))

\* a line of text without white space that does not start with #, as
\* parse_digestline reads it: the hex digits, if any, are not followed by
\* white space
TextLine(text) ==
    [kind |-> "digest", escaped |-> FALSE, sep |-> FALSE,
     digest |-> [size |-> 0, data |-> 0], type |-> " ", path |-> text]

\* the text cut at its newlines
RECURSIVE SplitLines(_, _)
SplitLines(text, cur) ==
    IF Len(text) = 0 THEN << cur >>
    ELSE IF Head(text) = "\n" THEN << cur >> \o SplitLines(Tail(text), << >>)
    ELSE SplitLines(Tail(text), Append(cur, Head(text)))

\* fprintfcrc(&crc, sumfile, "#: option --exclude-marker=%s\n", marker) as
\* the lines it leaves in the file: the marker is printed as it is, so what
\* follows a newline in it starts a line of its own
OptionLines(marker) ==
    LET pieces == SplitLines(marker, << >>)
    IN  << [kind |-> "meta", items |-> << Item("option", TRUE, 0, pieces[1]) >>] >>
        \o [ i \in 1..(Len(pieces) - 1) |-> TextLine(pieces[i + 1]) ]

write_header_option_only(go) ==
    IF go.exclude_marker # << >>
    THEN << [kind |-> "meta", items |-> << Item("option", TRUE, 0, go.exclude_marker[1]) >>] >>
    ELSE << >>

\* the lines cmd_write prints before the records
write_header(go) ==
    << [kind |-> "comment"] >>
    \o (IF go.exclude_marker # << >> THEN OptionLines(go.exclude_marker[1]) ELSE << >>)

\* the trailer line: the CRC of everything written before it, then eof
write_trailer(crc) ==
    [kind |-> "meta", items |-> << Item("crc", TRUE, 0, crc), Item("eof", TRUE, 0, << >>) >>]

\* largest mtime of a file on disk
MaxMtime == 3

\* the time of the run, later than the files on disk
Now == MaxMtime + 1

\* fopen(gopt_digestfile, "wb"): [ok, fs, ino]; the file is created or
\* truncated, which sets its modification time to now
fopen_wb(f, path) ==
    LET comps == SplitPath(path, << >>)
        i == mystat(f, path)
        dir == IF Len(comps) = 0 THEN 0
               ELSE namei(f, 1, SubSeq(comps, 1, Len(comps) - 1), TRUE, MaxSymlinks)
        name == comps[Len(comps)]
        new == Len(f) + 1
    IN  IF i # 0
        THEN IF f[i].type = "file"
             THEN [ok |-> TRUE,
                   fs |-> [f EXCEPT ![i].lines = << >>, ![i].size = 0, ![i].mtime = Now],
                   ino |-> i]
             ELSE [ok |-> FALSE, fs |-> f, ino |-> 0]
        ELSE IF dir = 0 \/ f[dir].type # "dir" \/ name \in DOMAIN f[dir].entries
                \/ name = << "." >> \/ name = << ".", "." >>
        THEN [ok |-> FALSE, fs |-> f, ino |-> 0]
        ELSE [ok |-> TRUE,
              fs |-> Append([f EXCEPT ![dir].entries =
                                 [n \in DOMAIN f[dir].entries \cup {name} |->
                                     IF n = name THEN new ELSE f[dir].entries[n]]],
                            [type |-> "file", parent |-> dir, entries |-> << >>,
                             mtime |-> Now, size |-> 0, data |-> 0, err |-> "ok",
                             target |-> << >>, lines |-> << >>]),
              ino |-> new]

cmd_write_header_uncounted(f, go, fl, cut) ==
    LET o == fopen_wb(f, go.digestfile[1])
        w == write_records(fl, rb_begin(fl), write_header(go), << >>)
    IN  IF ~o.ok THEN [ret |-> TRUE, fs |-> f, filelist |-> fl, crash |-> FALSE]
        ELSE IF w.crash
        THEN [ret |-> FALSE,
              fs |-> [o.fs EXCEPT ![o.ino].lines =
                         SubSeq(w.lines, 1, IF cut < Len(w.lines) THEN cut ELSE Len(w.lines))],
              filelist |-> w.filelist, crash |-> TRUE]
        ELSE [ret |-> FALSE,
              fs |-> [o.fs EXCEPT ![o.ino].lines =
                         Append(w.lines, write_trailer(fprintfcrc(<< >>, Tail(w.lines))))],
              filelist |-> w.filelist, crash |-> FALSE]

\* cmd_write: [ret, fs, filelist, crash]; cut is the number of lines that
\* reached the disk when the process dies inside the loop
cmd_write(f, go, fl, cut) ==
    LET o == fopen_wb(f, go.digestfile[1])
        w == write_records(fl, rb_begin(fl), write_header(go), << >>)
    IN  IF ~o.ok THEN [ret |-> TRUE, fs |-> f, filelist |-> fl, crash |-> FALSE]
        ELSE IF w.crash
        THEN [ret |-> FALSE,
              fs |-> [o.fs EXCEPT ![o.ino].lines =
                         SubSeq(w.lines, 1, IF cut < Len(w.lines) THEN cut ELSE Len(w.lines))],
              filelist |-> w.filelist, crash |-> TRUE]
        ELSE [ret |-> FALSE,
              fs |-> [o.fs EXCEPT ![o.ino].lines =
                         Append(w.lines, write_trailer(fprintfcrc(<< >>, w.lines)))],
              filelist |-> w.filelist, crash |-> FALSE]

(***************************************************************************)
(* digup.c: select_digestfile and read_digestfile.                         *)
(***************************************************************************)

\* the default digest file names probed by select_digestfile, in order
DefaultDigestfiles ==
    << [name |-> << "m", "d", "5", "s", "u", "m", ".", "t", "x", "t" >>, type |-> "DT_MD5"],
       [name |-> << "s", "h", "a", "1", "s", "u", "m", ".", "t", "x", "t" >>, type |-> "DT_SHA1"],
       [name |-> << "s", "h", "a", "1", "2", "8", "s", "u", "m", ".", "t", "x", "t" >>,
        type |-> "DT_SHA1"],
       [name |-> << "s", "h", "a", "2", "5", "6", "s", "u", "m", ".", "t", "x", "t" >>,
        type |-> "DT_SHA256"],
       [name |-> << "s", "h", "a", "5", "1", "2", "s", "u", "m", ".", "t", "x", "t" >>,
        type |-> "DT_SHA512"] >>

\* [ok, gopt]
select_digestfile(f, go) ==
    LET found == {k \in 1..Len(DefaultDigestfiles) : access(f, DefaultDigestfiles[k].name)}
        k0 == CHOOSE k \in found : TRUE
    IN  IF Cardinality(found) > 1 THEN [ok |-> FALSE, gopt |-> go]
        ELSE IF found = {} THEN [ok |-> TRUE, gopt |-> go]
        ELSE [ok |-> TRUE, gopt |-> [go EXCEPT !.digesttype = DefaultDigestfiles[k0].type,
                                                 !.digestfile = << DefaultDigestfiles[k0].name >>]]

\* the lines of the digest file being read
SumfileLines == fs[mystat(fs, gopt.digestfile[1])].lines

\* a digest file has been selected and is there
SumfileExists == gopt.digestfile # << >> /\ mystat(fs, gopt.digestfile[1]) # 0

Exit(code) ==
    /\ pc' = "exit"
    /\ retcode' = code

\* a line that ends with "\r\n" in the file: the line, marked
CrlfLine(line) ==
    IF line.kind = "comment" THEN [kind |-> "comment", eol |-> "\r\n"]
    ELSE IF line.kind = "meta" THEN [kind |-> "meta", items |-> line.items, eol |-> "\r\n"]
    ELSE [kind |-> "digest", escaped |-> line.escaped, sep |-> line.sep,
          digest |-> line.digest, type |-> line.type, path |-> line.path, eol |-> "\r\n"]

\* the items parse_digestline finds in a #: line that has "\r" at its end.
\* A branch that reads up to the end of the line takes the "\r" into its
\* text.  After a number or a CRC the loop goes round once more: it skips
\* the "\r" as white space, finds a word of length 0, for which
\* strncmp(.., "option", 0) is 0, and fails in the option branch.  The eof
\* branch returns before the "\r" is looked at.
CarriageReturnItems(items) ==
    IF Len(items) = 0 THEN << Item("option", FALSE, 0, << >>) >>
    ELSE LET n == Len(items)
             last == items[n]
         IN  IF ~last.ok THEN items
             ELSE IF last.key \in { "option", "target", "target\\", "symlink", "symlink\\" }
             THEN [items EXCEPT ![n].str = @ \o << "\r" >>]
             ELSE IF last.key \in { "mtime", "size", "crc" }
             THEN Append(items, Item("option", FALSE, 0, << >>))
             ELSE items

\* a line that ends with "\r\n" as parse_digestline reads it: getdelims
\* stops after "\n" only (the scan of its delimiters "\n\r" steps past the
\* "\r" before the test that ends the line), and read_digestfile removes
\* only the trailing "\n", so the "\r" stays in the line
CarriageReturn(line) ==
    IF line.kind = "comment" THEN line
    ELSE IF line.kind = "meta"
    THEN [line EXCEPT !.items = CarriageReturnItems(@)]
    ELSE IF line.sep /\ line.type \in { " ", "*" }
    THEN [line EXCEPT !.path = @ \o << "\r" >>]
    ELSE line

\* the lines that the calls of getline return for a file, the trailing
\* newline removed
RECURSIVE getline(_)
getline(lines) ==
    IF Len(lines) = 0 THEN << >>
    ELSE << IF "eol" \in DOMAIN Head(lines) THEN CarriageReturn(Head(lines))
            ELSE Head(lines) >> \o getline(Tail(lines))

\* read_digestfile up to the first getline
ReadDigestfile ==
    /\ pc = "start"
    /\ LET sel == IF gopt.digestfile = << >> THEN select_digestfile(fs, gopt)
                  ELSE [ok |-> TRUE, gopt |-> gopt]
           go == sel.gopt
           i == mystat(fs, go.digestfile[1])
       IN  IF ~sel.ok
           THEN Exit(-1) /\ UNCHANGED gopt
           ELSE IF go.digestfile = << >>
           THEN /\ gopt' = [go EXCEPT !.digesttype = "DT_SHA1", !.digestfile = << DefaultDigestfiles[2].name >>]
                /\ pc' = "scan"
                /\ UNCHANGED retcode
           ELSE IF i = 0
           THEN IF go.digesttype = "DT_NONE"
                THEN Exit(-1) /\ gopt' = go
                ELSE pc' = "scan" /\ gopt' = go /\ UNCHANGED retcode
           ELSE IF fs[i].err = "open"
           THEN Exit(-1) /\ gopt' = go
           ELSE pc' = "parse" /\ gopt' = go /\ UNCHANGED retcode
    /\ tempinfo' = FileInfo0("FS_UNSEEN")
    /\ linenum' = 0
    /\ UNCHANGED << str1, run, stderr, g_filelist, g_filedigestmap, counters, fs, dirstack, frames, listing >>

\* answers to the prompt after a CRC mismatch
Answers == {"y", "n"}

\* one iteration of the getline loop of read_digestfile
ParseLine ==
    /\ pc = "parse"
    /\ linenum < Len(getline(SumfileLines))
    /\ \E answer \in Answers, ub \in BOOLEAN :
         LET r == parse_digestline(getline(SumfileLines)[linenum + 1], tempinfo, gopt, g_filelist,
                                   fprintfcrc(<< >>, SubSeq(getline(SumfileLines), 1, linenum)),
                                   answer, ub)
         IN  /\ linenum' = linenum + 1
             /\ g_filelist' = r.filelist
             /\ gopt' = r.gopt
             /\ tempinfo' = IF r.res # 0 THEN FileInfo0("FS_UNSEEN") ELSE r.tempinfo
             /\ CASE r.exit = "exit0"  -> Exit(0)
                  [] r.exit = "exit-1" -> Exit(-1)
                  [] r.exit = "crash"  -> pc' = "crash" /\ UNCHANGED retcode
                  [] OTHER             -> UNCHANGED << pc, retcode >>
    /\ UNCHANGED << str1, run, stderr, g_filedigestmap, counters, fs, dirstack, frames, listing >>

\* the for loop at the end of read_digestfile: [filelist, digestmap, counters]
RECURSIVE read_digestfile_index(_, _, _, _, _)
read_digestfile_index(go, fl, dm, c, node) ==
    IF node = rb_end(fl) THEN [filelist |-> fl, digestmap |-> dm, counters |-> c]
    ELSE LET fileinfo == InfoAt(fl, node)
             key == fl.nodes[node].key
             skip == go.matchpattern # << >> /\ ~strstr(key, go.matchpattern[1])
             fl1 == IF skip THEN SetInfo(fl, node, [fileinfo EXCEPT !.status = "FS_SKIPPED"])
                    ELSE fl
             c1 == IF skip THEN Incr(c, "skipped") ELSE c
             dm1 == IF fileinfo.digest # << >> THEN rb_insert(dm, fileinfo.digest[1], key)
                    ELSE dm
         IN  read_digestfile_index(go, fl1, dm1, c1, rb_successor(fl, node))

\* read_digestfile after the getline loop
ParseEnd ==
    /\ pc = "parse"
    /\ linenum = Len(getline(SumfileLines))
    /\ IF rb_isempty(g_filelist)
       THEN /\ IF gopt.digesttype = "DT_NONE" THEN Exit(-1)
               ELSE pc' = "scan" /\ UNCHANGED retcode
            /\ UNCHANGED << g_filelist, g_filedigestmap, counters >>
       ELSE LET r == read_digestfile_index(gopt, g_filelist, g_filedigestmap, counters,
                                           rb_begin(g_filelist))
            IN  /\ g_filelist' = r.filelist
                /\ g_filedigestmap' = r.digestmap
                /\ counters' = r.counters
                /\ pc' = "scan"
                /\ UNCHANGED retcode
    /\ UNCHANGED << str1, run, stderr, gopt, fs, tempinfo, linenum, dirstack, frames, listing >>

(***************************************************************************)
(* digup.c: dirstack_push, dirstack_pop, scan_directory, start_scan.       *)
(***************************************************************************)

\* [ok, dirstack]
dirstack_push_blind(ds, st) ==
    [ok |-> TRUE, dirstack |-> Append(ds, [dev |-> st.st_dev, ino |-> st.st_ino])]

dirstack_push(ds, st) ==
    IF \E i \in 1..Len(ds) : ds[i].dev = st.st_dev /\ ds[i].ino = st.st_ino
    THEN [ok |-> FALSE, dirstack |-> ds]
    ELSE [ok |-> TRUE, dirstack |-> Append(ds, [dev |-> st.st_dev, ino |-> st.st_ino])]

dirstack_pop(ds) == IF Len(ds) > 0 THEN SubSeq(ds, 1, Len(ds) - 1) ELSE ds

\* qsort(filenames, filenamepos, sizeof(char*), strcmpptr)
RECURSIVE qsort(_)
qsort(names) ==
    IF names = {} THEN << >>
    ELSE LET m == CHOOSE n \in names : \A o \in names : strcmp(n, o) <= 0
         IN  << m >> \o qsort(names \ {m})

scan_directory_first(f, go, ds, fr, path, st) ==
    LET push == dirstack_push(ds, st)
        names == DOMAIN f[st.st_ino].entries
        exclude_marker_found ==
            /\ go.exclude_marker # << >>
            /\ names # {}
            /\ strcmp(qsort(names)[1], go.exclude_marker[1]) = 0
    IN  IF ~push.ok
        THEN [dirstack |-> ds, frames |-> fr,
              msgs |-> << [msg |-> "filesystem loop detected", path |-> path] >>]
        ELSE IF f[st.st_ino].err = "open"
        THEN [dirstack |-> ds, frames |-> fr,
              msgs |-> << [msg |-> "could not open directory", path |-> path] >>]
        ELSE IF exclude_marker_found THEN [dirstack |-> ds, frames |-> fr, msgs |-> << >>]
        ELSE [dirstack |-> push.dirstack,
              frames |-> Append(fr, [path |-> path, st |-> st,
                                     filenames |-> qsort(names), fi |-> 1]),
              msgs |-> << >>]

\* scan_directory up to the loop over the sorted names: [dirstack, frames, msgs]
scan_directory(f, go, ds, fr, path, st) ==
    LET push == dirstack_push(ds, st)
        names == DOMAIN f[st.st_ino].entries
        exclude_marker_found ==
            go.exclude_marker # << >> /\ \E n \in names : strcmp(n, go.exclude_marker[1]) = 0
    IN  IF ~push.ok
        THEN [dirstack |-> ds, frames |-> fr,
              msgs |-> << [msg |-> "filesystem loop detected", path |-> path] >>]
        ELSE IF f[st.st_ino].err = "open"
        THEN [dirstack |-> ds, frames |-> fr,
              msgs |-> << [msg |-> "could not open directory", path |-> path] >>]
        ELSE IF exclude_marker_found THEN [dirstack |-> ds, frames |-> fr, msgs |-> << >>]
        ELSE [dirstack |-> push.dirstack,
              frames |-> Append(fr, [path |-> path, st |-> st,
                                     filenames |-> qsort(names), fi |-> 1]),
              msgs |-> << >>]

\* start_scan(".")
StartScan ==
    /\ pc = "scan"
    /\ LET i == mylstat(fs, << "." >>)
           r == scan_directory(fs, gopt, dirstack, frames, << "." >>, StatOf(fs, i))
       IN  /\ dirstack' = r.dirstack
           /\ frames' = r.frames
           /\ stderr' = stderr \o r.msgs
           /\ pc' = IF Len(r.frames) = 0 THEN "scanned" ELSE "walk"
    /\ UNCHANGED << str1, run, gopt, g_filelist, g_filedigestmap, counters, fs, tempinfo, linenum,
                    listing, retcode >>

\* the innermost scan_directory and the entry its for loop is at
Top == frames[Len(frames)]

AtEntry == pc = "walk" /\ Len(frames) > 0 /\ Top.fi <= Len(Top.filenames)

\* my_asprintf(&filepath, "%s/%s", path, filenames[fi])
CurFilepath == Top.path \o << "/" >> \o Top.filenames[Top.fi]

\* the inode mylstat finds, and the one the dispatch works on (mystat for a
\* symbolic link under --links); 0 when the call fails
CurLstat == mylstat(fs, CurFilepath)

CurStat ==
    IF CurLstat # 0 /\ fs[CurLstat].type = "symlink" /\ gopt.followsymlinks
    THEN mystat(fs, CurFilepath) ELSE CurLstat

\* the branch of the dispatch: "symlink", "file", "dir" or something skipped
CurKind ==
    IF CurLstat = 0 \/ CurStat = 0 THEN "none"
    ELSE IF fs[CurLstat].type = "symlink" /\ ~gopt.followsymlinks THEN "symlink"
    ELSE fs[CurStat].type

\* one iteration of the for loop of the innermost scan_directory
ScanEntry ==
    /\ AtEntry
    /\ LET fr1 == [frames EXCEPT ![Len(frames)].fi = Top.fi + 1]
       IN  CASE CurKind = "symlink" ->
                  LET r == process_symlink(fs, gopt, g_filelist, counters, CurFilepath,
                                           StatOf(fs, CurLstat))
                  IN  /\ g_filelist' = r.filelist
                      /\ counters' = r.counters
                      /\ frames' = fr1
                      /\ UNCHANGED << dirstack, stderr, pc >>
             [] CurKind = "file" ->
                  LET r == process_file(fs, gopt, g_filelist, g_filedigestmap, counters,
                                        CurFilepath, StatOf(fs, CurStat))
                  IN  /\ g_filelist' = r.filelist
                      /\ counters' = r.counters
                      /\ frames' = fr1
                      /\ pc' = IF r.abort THEN "crash" ELSE pc
                      /\ UNCHANGED << dirstack, stderr >>
             [] CurKind = "dir" ->
                  LET r == scan_directory(fs, gopt, dirstack, fr1, CurFilepath,
                                          StatOf(fs, CurStat))
                  IN  /\ dirstack' = r.dirstack
                      /\ frames' = r.frames
                      /\ stderr' = stderr \o r.msgs
                      /\ UNCHANGED << g_filelist, counters, pc >>
             [] OTHER ->
                  /\ frames' = fr1
                  /\ stderr' = Append(stderr, [msg |-> "could not stat", path |-> CurFilepath])
                  /\ UNCHANGED << g_filelist, counters, dirstack, pc >>
    /\ UNCHANGED << str1, run, gopt, g_filedigestmap, fs, tempinfo, linenum, listing, retcode >>

\* the innermost scan_directory returns
ScanReturn ==
    /\ pc = "walk"
    /\ Len(frames) > 0
    /\ frames[Len(frames)].fi > Len(frames[Len(frames)].filenames)
    /\ dirstack' = dirstack_pop(dirstack)
    /\ frames' = SubSeq(frames, 1, Len(frames) - 1)
    /\ pc' = IF Len(frames) = 1 THEN "scanned" ELSE pc
    /\ UNCHANGED << str1, run, stderr, gopt, g_filelist, g_filedigestmap, counters, fs, tempinfo, linenum,
                    listing, retcode >>

(***************************************************************************)
(* digup.c: main after the scan.                                           *)
(***************************************************************************)

\* lengths at which a dying cmd_write may leave the file
MaxCut == 2

AfterScan_writes ==
    /\ pc = "scanned"
    /\ listing' = IF filelist_deleted(g_filelist, counters) # 0 \/ ~gopt.onlymodified
                  THEN [cmd |-> "deleted", lines |-> cmd_deleted(g_filelist)]
                  ELSE listing
    /\ IF gopt.batch
       THEN \E cut \in 0..MaxCut :
              LET w == cmd_write(fs, gopt, g_filelist, cut)
              IN  /\ fs' = w.fs
                  /\ g_filelist' = w.filelist
                  /\ IF w.crash THEN pc' = "crash" /\ UNCHANGED retcode
                     ELSE Exit(IF filelist_clean(g_filelist, counters) THEN 0 ELSE 1)
       ELSE /\ pc' = "review"
            /\ UNCHANGED << fs, g_filelist, retcode >>
    /\ UNCHANGED << str1, run, stderr, gopt, g_filedigestmap, counters, tempinfo, linenum, dirstack, frames >>

\* main from the cmd_deleted call to the end of the batch branch, or to the
\* first prompt of the interactive branch
AfterScan ==
    /\ pc = "scanned"
    /\ listing' = IF filelist_deleted(g_filelist, counters) # 0 \/ ~gopt.onlymodified
                  THEN [cmd |-> "deleted", lines |-> cmd_deleted(g_filelist)]
                  ELSE listing
    /\ IF gopt.batch
       THEN \E cut \in 0..MaxCut :
              LET w == IF gopt.update THEN cmd_write(fs, gopt, g_filelist, cut)
                       ELSE [ret |-> TRUE, fs |-> fs, filelist |-> g_filelist, crash |-> FALSE]
              IN  /\ fs' = w.fs
                  /\ g_filelist' = w.filelist
                  /\ IF w.crash THEN pc' = "crash" /\ UNCHANGED retcode
                     ELSE Exit(IF filelist_clean(g_filelist, counters) THEN 0 ELSE 1)
       ELSE /\ pc' = "review"
            /\ UNCHANGED << fs, g_filelist, retcode >>
    /\ UNCHANGED << str1, run, stderr, gopt, g_filedigestmap, counters, tempinfo, linenum, dirstack, frames >>

\* a review command that prints a list
ReviewList ==
    /\ pc = "review"
    /\ \E cmd \in ListCommands :
         listing' = [cmd |-> cmd, lines |-> RunListCommand(cmd, g_filelist)]
    /\ UNCHANGED << str1, run, stderr, gopt, g_filelist, g_filedigestmap, counters, fs, tempinfo, linenum,
                    dirstack, frames, retcode, pc >>

\* the commands save and write
ReviewWrite ==
    /\ pc = "review"
    /\ \E cut \in 0..MaxCut :
         LET w == cmd_write(fs, gopt, g_filelist, cut)
         IN  /\ fs' = w.fs
             /\ g_filelist' = w.filelist
             /\ IF w.crash THEN pc' = "crash" /\ UNCHANGED retcode
                ELSE IF w.ret THEN UNCHANGED << pc, retcode >>
                ELSE Exit(0)
    /\ UNCHANGED << str1, run, stderr, gopt, g_filedigestmap, counters, tempinfo, linenum, dirstack, frames,
                    listing >>

\* the commands exit and quit, and end of input
ReviewQuit ==
    /\ pc = "review"
    /\ Exit(0)
    /\ UNCHANGED << str1, run, stderr, gopt, g_filelist, g_filedigestmap, counters, fs, tempinfo, linenum,
                    dirstack, frames, listing >>

Next ==
    \/ ReadDigestfile
    \/ ParseLine
    \/ ParseEnd
    \/ StartScan
    \/ ScanEntry
    \/ ScanReturn
    \/ AfterScan
    \/ ReviewList
    \/ ReviewWrite
    \/ ReviewQuit

(***************************************************************************)
(* Initial states: the options main has parsed from the command line, the  *)
(* file system with the digest file in it, and empty trees.                *)
(***************************************************************************)

\* largest size of a file on disk
MaxSize == 2

\* number of records of the digest file in the rename scenarios
MaxRecords == 5

Names == << << "a" >>, << "b" >>, << "c" >>, << "d" >>, << "h" >>, << "m" >>, << "n" >> >>

\* name of the digest file given with --file
SumName == << "s" >>

MetaLine(mtime, size, target) ==
    [kind |-> "meta",
     items |-> << Item("mtime", TRUE, mtime, << >>), Item("size", TRUE, size, << >>) >>
               \o (IF target = << >> THEN << >>
                   ELSE << Item("target", TRUE, 0, target[1]) >>)]

DigestLine(data, path) ==
    [kind |-> "digest", escaped |-> FALSE, sep |-> TRUE,
     digest |-> [size |-> DigestSize("DT_SHA1"), data |-> data], type |-> " ", path |-> path]

SymlinkLine(path) ==
    [kind |-> "meta", items |-> << Item("symlink", TRUE, 0, path) >>]

DirNode(parent, entries) ==
    [type |-> "dir", parent |-> parent, entries |-> entries, mtime |-> 0, size |-> 0,
     data |-> 0, err |-> "ok", target |-> << >>, lines |-> << >>]

FileNode(parent, mtime, size, data, err) ==
    [type |-> "file", parent |-> parent, entries |-> << >>, mtime |-> mtime, size |-> size,
     data |-> data, err |-> err, target |-> << >>, lines |-> << >>]

SymlinkNode(parent, mtime, size, target, err) ==
    [type |-> "symlink", parent |-> parent, entries |-> << >>, mtime |-> mtime,
     size |-> size, data |-> 0, err |-> err, target |-> target, lines |-> << >>]

SumfileNode(parent, lines) ==
    [type |-> "file", parent |-> parent, entries |-> << >>, mtime |-> 0, size |-> 0,
     data |-> 0, err |-> "ok", target |-> << >>, lines |-> lines]

\* a directory whose entries are the given nodes, in inode order from 2
FlatFs(names, nodes) ==
    << DirNode(1, [n \in {names[k] : k \in 1..Len(names)} |->
                     1 + (CHOOSE k \in 1..Len(names) : names[k] = n)]) >> \o nodes

Options(batch, update, onlymodified, fullcheck, follow, window, pattern) ==
    [batch |-> batch, fullcheck |-> fullcheck, followsymlinks |-> follow,
     onlymodified |-> onlymodified, update |-> update, digestfile |-> << SumName >>,
     digesttype |-> "DT_SHA1", modify_window |-> window, exclude_marker |-> << >>,
     matchpattern |-> pattern]

\* batch, update, onlymodified
Modes == { << FALSE, FALSE, FALSE >>, << TRUE, FALSE, FALSE >>,
           << TRUE, TRUE, FALSE >>, << TRUE, FALSE, TRUE >> }

\* the recorded mtime and size of the records of the digest files
RecMtime == MaxMtime - 1
RecSize == MaxSize - 1

\* a record of the digest file for a regular file
DigestRecord(data, path) == << MetaLine(RecMtime, RecSize, << >>), DigestLine(data, path) >>

\* the ways the digest file records a path: not at all, as a regular file,
\* as a symbolic link, a target comment before a digest line, a bare symlink
\* comment
RecordLines(path) ==
    { << >>,
      DigestRecord(1, path),
      DigestRecord(2, path),
      << MetaLine(RecMtime, RecSize, << Names[2] >>), SymlinkLine(path) >>,
      << MetaLine(RecMtime, RecSize, << Names[2] >>), DigestLine(1, path) >>,
      << SymlinkLine(path) >> }

\* the digest file: header comment, records, trailer
SumfileOf(records) ==
    LET body == << [kind |-> "comment"] >> \o records
    IN  Append(body, write_trailer(fprintfcrc(<< >>, body)))

\* a regular file on disk with every mtime, size, content and read failure
MatrixNodes ==
    { FileNode(1, m, z, d, "ok") : m \in 1..MaxMtime, z \in {RecSize, MaxSize}, d \in {1, 2} }
    \cup { FileNode(1, RecMtime, RecSize, 1, e) : e \in {"open", "read", "short"} }

\* what is on disk at a path in the scenarios that vary the kind of the
\* entry: << >> for nothing, else << node, followsymlinks >>
KindNodes ==
    { << >>,
      << FileNode(1, RecMtime, RecSize, 1, "ok"), FALSE >>,
      << FileNode(1, RecMtime + 1, RecSize, 2, "ok"), FALSE >>,
      << FileNode(1, RecMtime, RecSize, 1, "open"), FALSE >>,
      << SymlinkNode(1, RecMtime, RecSize, Names[2], "ok"), FALSE >>,
      << SymlinkNode(1, RecMtime + 1, RecSize, Names[3], "ok"), FALSE >>,
      << SymlinkNode(1, RecMtime + 1, RecSize, Names[2], "ok"), TRUE >>,
      << SymlinkNode(1, RecMtime, RecSize, Names[2], "readlink"), FALSE >> }

\* what is on disk at path b: a regular file or a dangling symbolic link
OtherNodes ==
    { FileNode(1, RecMtime, RecSize, 1, "ok"),
      SymlinkNode(1, RecMtime + 1, RecSize, Names[3], "ok") }

EmptyCounters ==
    [seen |-> 0, new |-> 0, touched |-> 0, changed |-> 0, error |-> 0,
     copied |-> 0, renamed |-> 0, oldpath |-> 0, skipped |-> 0]

InitWith(f, go) ==
    /\ gopt = go
    /\ fs = f
    /\ g_filelist = rb_create("string")
    /\ g_filedigestmap = rb_create("digest")
    /\ counters = EmptyCounters
    /\ tempinfo = FileInfo0("FS_UNSEEN")
    /\ linenum = 0
    /\ dirstack = << >>
    /\ frames = << >>
    /\ listing = [cmd |-> "", lines |-> << >>]
    /\ retcode = 0
    /\ stderr = << >>
    /\ run = 1
    /\ str1 = NoString
    /\ pc = "start"

\* a regular file a with a record, in every combination of mtime, size,
\* content, read failure, --check and --modify-window; b is a new file
InitMatrix ==
    \E data \in {1, 2}, node \in MatrixNodes, fullcheck \in BOOLEAN, window \in {0, 1},
       mode \in { << FALSE, FALSE, FALSE >>, << TRUE, FALSE, FALSE >> } :
        InitWith(FlatFs(<< SumName, Names[2], Names[1] >>,
                        << SumfileNode(1, SumfileOf(DigestRecord(data, Names[1]))),
                           FileNode(1, RecMtime, RecSize, 1, "ok"), node >>),
                 Options(mode[1], mode[2], mode[3], fullcheck, FALSE, window, << >>))

\* paths a and b in every recorded form and every kind of entry on disk,
\* with and without --restrict, in every mode
InitKinds ==
    \E reca \in RecordLines(Names[1]), recb \in { << >>, DigestRecord(1, Names[2]) },
       disk \in KindNodes, other \in OtherNodes, mode \in Modes, fullcheck \in BOOLEAN,
       pattern \in { << >>, << Names[1] >>, << Names[2] >> } :
        InitWith(FlatFs(<< SumName, Names[2] >> \o (IF disk = << >> THEN << >> ELSE << Names[1] >>),
                        << SumfileNode(1, SumfileOf(reca \o recb)), other >>
                        \o (IF disk = << >> THEN << >> ELSE << disk[1] >>)),
                 Options(mode[1], mode[2], mode[3], fullcheck,
                         disk # << >> /\ disk[2], 0, pattern))

Init == InitMatrix \/ InitKinds

Spec == Init /\ [][Next]_vars

\* modification times at both sides of the recorded one, of 2^UIntBits
\* seconds later and of twice as much
WideMtimes ==
    { RecMtime + k * (2 ^ UIntBits) + d : k \in 0..2, d \in {-1, 0, 1} }

\* the regular file a with a record that holds the mtime RecMtime or a
\* time 2^UIntBits seconds later, and on disk with every mtime of
\* WideMtimes, the recorded or another size and content, with and without
\* --check, for both modify windows; b is a new file
InitWide ==
    \E rec \in { RecMtime, RecMtime + 2 ^ UIntBits }, m \in WideMtimes,
       z \in {RecSize, MaxSize}, d \in {1, 2}, fullcheck \in BOOLEAN, window \in {0, 1},
       mode \in { << FALSE, FALSE, FALSE >>, << TRUE, TRUE, FALSE >> } :
        InitWith(FlatFs(<< SumName, Names[2], Names[1] >>,
                        << SumfileNode(1, SumfileOf(<< MetaLine(rec, RecSize, << >>),
                                                       DigestLine(1, Names[1]) >>)),
                           FileNode(1, RecMtime, RecSize, 2, "ok"),
                           FileNode(1, m, z, d, "ok") >>),
                 Options(mode[1], mode[2], mode[3], fullcheck, FALSE, window, << >>))

SpecWide == InitWide /\ [][Next]_vars

\* the records of the first n names, with the digests given by the function data
RECURSIVE RenameRecords(_, _)
RenameRecords(data, n) ==
    IF n = 0 THEN << >>
    ELSE RenameRecords(data, n - 1) \o DigestRecord(data[n], Names[n])

\* rename and copy scenarios: MaxRecords recorded files with two contents,
\* each still on disk unchanged or gone, and one new file
InitRename ==
    \E data \in [1..MaxRecords -> {1, 2}], present \in SUBSET (1..MaxRecords),
       mode \in { << FALSE, FALSE, FALSE >>, << TRUE, TRUE, FALSE >> } :
        LET kept == { k \in 1..(MaxRecords + 1) : k \in present \/ k = MaxRecords + 1 }
            order == qsort({ Names[k] : k \in kept })
            nodes == [ i \in 1..Len(order) |->
                         LET k == CHOOSE k \in kept : Names[k] = order[i]
                         IN  IF k = MaxRecords + 1 THEN FileNode(1, RecMtime, RecSize, 2, "ok")
                             ELSE FileNode(1, RecMtime, RecSize, data[k], "ok") ]
        IN  InitWith(FlatFs(<< SumName >> \o order,
                            << SumfileNode(1, SumfileOf(RenameRecords(data, MaxRecords))) >>
                            \o nodes),
                     Options(mode[1], mode[2], mode[3], FALSE, FALSE, 0, << >>))

SpecRename == InitRename /\ [][Next]_vars

\* lines of a digest file that cmd_write never prints: an unknown key, a
\* character after the hex digits that is no space, a number of hex digits
\* that selects no algorithm, an improper type indicator, an improper
\* escape, a second record of path a as a digest line and as a symlink
\* comment, and a digest of another algorithm
FaultLines ==
    { [kind |-> "meta", items |-> << Item("bogus", TRUE, 0, << >>) >>],
      [DigestLine(2, Names[3]) EXCEPT !.sep = FALSE],
      [DigestLine(2, Names[3]) EXCEPT !.digest.size = 3],
      [DigestLine(2, Names[3]) EXCEPT !.type = "x"],
      [DigestLine(2, << "\\", "x" >>) EXCEPT !.escaped = TRUE],
      DigestLine(2, Names[1]),
      SymlinkLine(Names[1]),
      [DigestLine(2, Names[3]) EXCEPT !.digest.size = DigestSize("DT_MD5")] }

\* the digest file cmd_write leaves for the unchanged files a and b
ValidSumfile == SumfileOf(DigestRecord(1, Names[1]) \o DigestRecord(2, Names[2]))

\* the same records as sha1sum prints them for the arguments b a
UnsortedSumfile == SumfileOf(DigestRecord(2, Names[2]) \o DigestRecord(1, Names[1]))

\* ValidSumfile with the digest of a edited and the trailer left as it was
EditedSumfile ==
    [ValidSumfile EXCEPT ![3] = DigestLine(2, Names[1])]

\* ValidSumfile with a trailer whose crc value is not 0x and eight hex digits
NoCrcSumfile ==
    [ValidSumfile EXCEPT ![Len(ValidSumfile)].items[1].ok = FALSE]

\* the digest files of the parsing scenarios: the valid one, alone and
\* followed by a further record, its records in another order, each faulty
\* line between its two records, the edited ones, and each of its prefixes,
\* which is what a write that died has left
ParseSumfiles ==
    { ValidSumfile, UnsortedSumfile, EditedSumfile, NoCrcSumfile,
      ValidSumfile \o DigestRecord(2, Names[3]) }
    \cup { SumfileOf(DigestRecord(1, Names[1]) \o << l >> \o DigestRecord(2, Names[2])) :
             l \in FaultLines }
    \cup { SubSeq(ValidSumfile, 1, k) : k \in 0..(Len(ValidSumfile) - 1) }

\* a digest file of ParseSumfiles, the files a and b or only a on disk, the
\* digest type given by --type or not, in every mode
InitParse ==
    \E lines \in ParseSumfiles, mode \in Modes, both \in BOOLEAN,
       type \in {"DT_SHA1", "DT_NONE"} :
        InitWith(FlatFs(<< SumName, Names[1] >> \o (IF both THEN << Names[2] >> ELSE << >>),
                        << SumfileNode(1, lines), FileNode(1, RecMtime, RecSize, 1, "ok") >>
                        \o (IF both THEN << FileNode(1, RecMtime, RecSize, 2, "ok") >>
                            ELSE << >>)),
                 [Options(mode[1], mode[2], mode[3], FALSE, FALSE, 0, << >>)
                     EXCEPT !.digesttype = type])

\* no digest file: an empty directory or the file a alone, with the options
\* -t sha1, --file s, or neither, in every mode
InitFresh ==
    \E mode \in Modes, empty \in BOOLEAN,
       sel \in { << << DefaultDigestfiles[2].name >>, "DT_SHA1" >>,
                 << << SumName >>, "DT_NONE" >>,
                 << << >>, "DT_NONE" >> } :
        InitWith(IF empty THEN FlatFs(<< >>, << >>)
                 ELSE FlatFs(<< Names[1] >>, << FileNode(1, RecMtime, RecSize, 1, "ok") >>),
                 [Options(mode[1], mode[2], mode[3], FALSE, FALSE, 0, << >>)
                     EXCEPT !.digestfile = sel[1], !.digesttype = sel[2]])

SpecParse == (InitParse \/ InitFresh) /\ [][Next]_vars

\* a symbolic link a with a record, in every combination of mtime, size,
\* target, readlink failure, --check and --modify-window; b is a file
InitLinks ==
    \E mtime \in 1..MaxMtime, size \in {RecSize, MaxSize}, target \in {Names[2], Names[3]},
       err \in {"ok", "readlink"}, fullcheck \in BOOLEAN, window \in {0, 1},
       mode \in { << FALSE, FALSE, FALSE >>, << TRUE, FALSE, FALSE >> } :
        InitWith(FlatFs(<< SumName, Names[2], Names[1] >>,
                        << SumfileNode(1, SumfileOf(<< MetaLine(RecMtime, RecSize, << Names[2] >>),
                                                       SymlinkLine(Names[1]) >>)),
                           FileNode(1, RecMtime, RecSize, 1, "ok"),
                           SymlinkNode(1, mtime, size, target, err) >>),
                 Options(mode[1], mode[2], mode[3], fullcheck, FALSE, window, << >>))

SpecLinks == InitLinks /\ [][Next]_vars

\* a tree of directories: . holds the digest file s, the directory d and the
\* file n; d holds the file a, the directory c, the symbolic link h and the
\* file m; c holds the file b and the symbolic link h to ../..
TreeFs(lines, target) ==
    << DirNode(1, (SumName :> 2) @@ (Names[4] :> 3) @@ (Names[7] :> 4)),
       SumfileNode(1, lines),
       DirNode(1, (Names[1] :> 5) @@ (Names[3] :> 6) @@ (Names[5] :> 7) @@ (Names[6] :> 8)),
       FileNode(1, RecMtime, RecSize, 1, "ok"),
       FileNode(3, RecMtime, RecSize, 1, "ok"),
       DirNode(3, (Names[2] :> 9) @@ (Names[5] :> 10)),
       SymlinkNode(3, RecMtime, RecSize, target, "ok"),
       FileNode(3, RecMtime, RecSize, 2, "ok"),
       FileNode(6, RecMtime, RecSize, 2, "ok"),
       SymlinkNode(6, RecMtime, RecSize, << ".", ".", "/", ".", "." >>, "ok") >>

\* targets of the link d/h: the parent of d, d itself, the directory c, the
\* file m, nothing
LinkTargets == { << ".", "." >>, << "." >>, Names[3], Names[6], << "x" >> }

\* names of the exclude marker: none, the first, a middle and the last entry
\* of d, the last entry of ., and a name that no directory holds
ExcludeMarkers ==
    { << >>, << Names[1] >>, << Names[5] >>, << Names[6] >>, << Names[7] >>, << << "x" >> >> }

\* the ways to name the digest file s with --file: s, ./s and d/../s
FileSpellings ==
    { SumName, << ".", "/" >> \o SumName,
      Names[4] \o << "/", ".", ".", "/" >> \o SumName }

\* the tree with every link target and exclude marker, with and without
\* --links, in every mode and with every spelling of --file; the digest
\* file records d/a
InitTree ==
    \E target \in LinkTargets, marker \in ExcludeMarkers, follow \in BOOLEAN, mode \in Modes,
       file \in FileSpellings :
        InitWith(TreeFs(SumfileOf(DigestRecord(1, Names[4] \o << "/" >> \o Names[1])), target),
                 [Options(mode[1], mode[2], mode[3], FALSE, follow, 0, << >>)
                     EXCEPT !.exclude_marker = marker, !.digestfile = << file >>])

SpecTree == InitTree /\ [][Next]_vars

\* scan_directory runs on once start_scan has called it: the steps of the
\* walk are weakly fair.  A step of the walk is possible exactly when pc is
\* "walk", which is written here in the place of ENABLED.
Walking == pc = "walk"

SpecTreeLive ==
    /\ SpecTree
    /\ WF_vars(StartScan)
    /\ ([]<>(~Walking) \/ []<><<ScanEntry \/ ScanReturn>>_vars)

\* number of invocations of the program over one tree
MaxRuns == 2

\* the program is started again in the directory it has left, with the
\* options of the run before, after a run that has written the digest file
Rerun ==
    /\ pc = "exit"
    /\ run < MaxRuns
    /\ SumfileExists
    /\ fs[mystat(fs, gopt.digestfile[1])].mtime = Now
    /\ run' = run + 1
    /\ g_filelist' = rb_create("string")
    /\ g_filedigestmap' = rb_create("digest")
    /\ counters' = EmptyCounters
    /\ tempinfo' = FileInfo0("FS_UNSEEN")
    /\ linenum' = 0
    /\ dirstack' = << >>
    /\ frames' = << >>
    /\ listing' = [cmd |-> "", lines |-> << >>]
    /\ retcode' = 0
    /\ stderr' = << >>
    /\ pc' = "start"
    /\ UNCHANGED << str1, gopt, fs >>

\* the program is started again after a run that has written the digest
\* file, with the options of the run before but without --exclude-marker
RerunBare ==
    /\ pc = "exit"
    /\ run < MaxRuns
    /\ SumfileExists
    /\ fs[mystat(fs, gopt.digestfile[1])].mtime = Now
    /\ run' = run + 1
    /\ gopt' = [gopt EXCEPT !.exclude_marker = << >>]
    /\ g_filelist' = rb_create("string")
    /\ g_filedigestmap' = rb_create("digest")
    /\ counters' = EmptyCounters
    /\ tempinfo' = FileInfo0("FS_UNSEEN")
    /\ linenum' = 0
    /\ dirstack' = << >>
    /\ frames' = << >>
    /\ listing' = [cmd |-> "", lines |-> << >>]
    /\ retcode' = 0
    /\ stderr' = << >>
    /\ pc' = "start"
    /\ UNCHANGED << str1, fs >>

\* names given to --exclude-marker: none, the entry m of d, a name that no
\* directory holds, and names with a newline in them
PersistMarkers ==
    { << >>, << Names[6] >>, << << "x" >> >>, << << "m", "\n", "x" >> >>,
      << << "x", "\n" >> >> }

\* the tree with every marker of PersistMarkers in every mode
InitPersist ==
    \E marker \in PersistMarkers, mode \in Modes :
        InitWith(TreeFs(SumfileOf(DigestRecord(1, Names[4] \o << "/" >> \o Names[1])), Names[3]),
                 [Options(mode[1], mode[2], mode[3], FALSE, FALSE, 0, << >>)
                     EXCEPT !.exclude_marker = marker])

SpecPersist == InitPersist /\ [][Next \/ RerunBare]_vars

NextTwice == Next \/ Rerun

SpecTwice == InitTree /\ [][NextTwice]_vars

(***************************************************************************)
(* test_rbtree.c: a tree with string keys that takes rb_insert and         *)
(* rb_delete calls in any order, as test_strings and test_integers_multi   *)
(* do with their random and repeated keys.                                 *)
(***************************************************************************)
\* number of rb_insert calls of a run
MaxInserts == 5

\* three keys, so that runs of MaxInserts insertions repeat keys
TestKeys == { Names[1], Names[2], Names[3] }

\* the nodes that rb_insert allocated and rb_delete has not freed
LiveNodes(tree) == { n \in 3..Len(tree.nodes) : tree.nodes[n].parent # NULL }

InitTest ==
    /\ gopt = Options(FALSE, FALSE, FALSE, FALSE, FALSE, 0, << >>)
    /\ fs = FlatFs(<< >>, << >>)
    /\ g_filelist = rb_create("string")
    /\ g_filedigestmap = rb_create("digest")
    /\ counters = EmptyCounters
    /\ tempinfo = FileInfo0("FS_UNSEEN")
    /\ linenum = 0
    /\ dirstack = << >>
    /\ frames = << >>
    /\ listing = [cmd |-> "", lines |-> << >>]
    /\ retcode = 0
    /\ stderr = << >>
    /\ run = 1
    /\ str1 = NoString
    /\ pc = "test"

\* rb_insert(tree, key, value) with the key as its own value
TestInsert ==
    /\ pc = "test"
    /\ Len(g_filelist.nodes) - 2 < MaxInserts
    /\ \E key \in TestKeys : g_filelist' = rb_insert(g_filelist, key, key)
    /\ UNCHANGED << str1, run, stderr, gopt, g_filedigestmap, counters, fs, tempinfo, linenum, dirstack,
                    frames, listing, retcode, pc >>

\* rb_delete(tree, node) with a node of the tree
TestDelete ==
    /\ pc = "test"
    /\ \E node \in LiveNodes(g_filelist) : g_filelist' = rb_delete(g_filelist, node)
    /\ UNCHANGED << str1, run, stderr, gopt, g_filedigestmap, counters, fs, tempinfo, linenum, dirstack,
                    frames, listing, retcode, pc >>

NextTest == TestInsert \/ TestDelete

SpecTest == InitTest /\ [][NextTest]_vars

\* the digest file of the line ending scenarios: a regular file a and a
\* symbolic link c to a, with the trailer or without it
CrlfRecords ==
    DigestRecord(1, Names[1]) \o << MetaLine(RecMtime, 1, << Names[1] >>), SymlinkLine(Names[3]) >>

CrlfSumfiles == { SumfileOf(CrlfRecords), << [kind |-> "comment"] >> \o CrlfRecords }

\* the file as unix2dos leaves it
RECURSIVE Unix2Dos(_)
Unix2Dos(lines) ==
    IF Len(lines) = 0 THEN << >>
    ELSE << CrlfLine(Head(lines)) >> \o Unix2Dos(Tail(lines))

\* a digest file with LF or with CRLF line endings for the unchanged file a
\* and the unchanged symbolic link c, in every mode, with and without
\* --check
InitCrlf ==
    \E lines \in CrlfSumfiles, crlf \in BOOLEAN, mode \in Modes, fullcheck \in BOOLEAN :
        InitWith(FlatFs(<< SumName, Names[1], Names[3] >>,
                        << SumfileNode(1, IF crlf THEN Unix2Dos(lines) ELSE lines),
                           FileNode(1, RecMtime, RecSize, 1, "ok"),
                           SymlinkNode(1, RecMtime, 1, Names[1], "ok") >>),
                 Options(mode[1], mode[2], mode[3], fullcheck, FALSE, 0, << >>))

SpecCrlf == InitCrlf /\ [][Next]_vars

\* lines between the metadata comment of a record and the line that
\* commits it: none, a plain comment, a comment of unknown content, a line
\* without a digest, and a trailer
BetweenLines ==
    { << >>, << [kind |-> "comment"] >>,
      << [kind |-> "meta", items |-> << Item("bogus", TRUE, 0, << >>) >>] >>,
      << [DigestLine(2, Names[3]) EXCEPT !.sep = FALSE] >>,
      << write_trailer(<< >>) >> }

\* digest files in which the metadata comment and the commit of the record
\* a, or of the symbolic link c, are apart, followed by a record b without
\* a metadata comment
MetaSumfiles ==
    { << [kind |-> "comment"], MetaLine(RecMtime, RecSize, t) >> \o x \o << c >>
      \o << DigestLine(2, Names[2]) >> :
        x \in BetweenLines, t \in { << >>, << Names[2] >> },
        c \in { DigestLine(1, Names[1]), SymlinkLine(Names[3]) } }

InitMeta ==
    \E lines \in MetaSumfiles, mode \in Modes :
        InitWith(FlatFs(<< SumName, Names[1], Names[2] >>,
                        << SumfileNode(1, lines), FileNode(1, RecMtime, RecSize, 1, "ok"),
                           FileNode(1, RecMtime, RecSize, 2, "ok") >>),
                 Options(mode[1], mode[2], mode[3], FALSE, FALSE, 0, << >>))

SpecMeta == InitMeta /\ [][Next]_vars

\* a digest file that records a, b and c with one digest, in every order of
\* its lines, and d with another; a is on disk or not, in every mode
InitOrder ==
    \E order \in { o \in [1..3 -> 1..3] : \A i, j \in 1..3 : o[i] = o[j] => i = j },
       present \in BOOLEAN, mode \in Modes :
        InitWith(FlatFs(<< SumName >> \o (IF present THEN << Names[1] >> ELSE << >>),
                        << SumfileNode(1, SumfileOf(DigestRecord(1, Names[order[1]])
                                                    \o DigestRecord(2, Names[4])
                                                    \o DigestRecord(1, Names[order[2]])
                                                    \o DigestRecord(1, Names[order[3]]))) >>
                        \o (IF present THEN << FileNode(1, RecMtime, RecSize, 1, "ok") >>
                            ELSE << >>)),
                 Options(mode[1], mode[2], mode[3], FALSE, FALSE, 0, << >>))

\* the calls of test_rbtree.c and the runs of the program over InitOrder
SpecOrder == (InitTest \/ InitOrder) /\ [][NextTest \/ Next]_vars

(***************************************************************************)
(* test_digup.c: test_filename_escaping, with every string of at most      *)
(* MaxLen characters in place of the four literals of the test.            *)
(***************************************************************************)

\* length of the longest string of the test
MaxLen == 4

\* the two characters that are escaped, the letter of the escape \n, and an
\* ordinary character
EscapeChars == { "\\", "\n", "n", "a" }

EscapeStrings == UNION { [1..k -> EscapeChars] : k \in 0..MaxLen }

InitEscape ==
    /\ gopt = Options(FALSE, FALSE, FALSE, FALSE, FALSE, 0, << >>)
    /\ fs = FlatFs(<< >>, << >>)
    /\ g_filelist = rb_create("string")
    /\ g_filedigestmap = rb_create("digest")
    /\ counters = EmptyCounters
    /\ tempinfo = FileInfo0("FS_UNSEEN")
    /\ linenum = 0
    /\ dirstack = << >>
    /\ frames = << >>
    /\ listing = [cmd |-> "", lines |-> << >>]
    /\ retcode = 0
    /\ stderr = << >>
    /\ run = 1
    /\ \E p \in EscapeStrings : str1 = [p |-> p, s |-> p, ret |-> FALSE]
    /\ pc = "escape"

\* needescape_filename(&str1)
TestNeedescape ==
    /\ pc = "escape"
    /\ str1' = [str1 EXCEPT !.s = needescape_filename(str1.s)[2],
                            !.ret = needescape_filename(str1.s)[1]]
    /\ pc' = "unescape"
    /\ UNCHANGED << run, stderr, gopt, g_filelist, g_filedigestmap, counters, fs, tempinfo,
                    linenum, dirstack, frames, listing, retcode >>

\* unescape_filename(str1)
TestUnescape ==
    /\ pc = "unescape"
    /\ str1' = [str1 EXCEPT !.s = unescape_filename(str1.s)[2],
                            !.ret = unescape_filename(str1.s)[1]]
    /\ pc' = "unescaped"
    /\ UNCHANGED << run, stderr, gopt, g_filelist, g_filedigestmap, counters, fs, tempinfo,
                    linenum, dirstack, frames, listing, retcode >>

\* unescape_filename(str1) on the string as given
TestUnescapeFirst ==
    /\ pc = "escape"
    /\ str1' = [str1 EXCEPT !.s = unescape_filename(str1.s)[2],
                            !.ret = unescape_filename(str1.s)[1]]
    /\ pc' = "decoded"
    /\ UNCHANGED << run, stderr, gopt, g_filelist, g_filedigestmap, counters, fs, tempinfo,
                    linenum, dirstack, frames, listing, retcode >>

NextEscape == TestNeedescape \/ TestUnescape \/ TestUnescapeFirst

SpecEscape == InitEscape /\ [][NextEscape]_vars

(***************************************************************************)
(* Properties.  The records of a table are the nodes allocated after the  *)
(* two sentinels; they are read from the node store, not through rb_find. *)
(***************************************************************************)

Records(fl) == 3..Len(fl.nodes)

Info(n) == g_filelist.nodes[n].value

Path(n) == g_filelist.nodes[n].key

HasRecord(path) == \E n \in Records(g_filelist) : Path(n) = path

RecordOf(path) == CHOOSE n \in Records(g_filelist) : Path(n) = path

\* the path the classifiers look up for the entry the walker is at
CurPath == StripDotSlash(CurFilepath)

\* the entry the walker is at reaches the record lookup of its classifier
Classifying(kind) ==
    /\ AtEntry
    /\ CurKind = kind
    /\ strcmp(CurPath, gopt.digestfile[1]) # 0
    /\ gopt.matchpattern # << >> => strstr(CurPath, gopt.matchpattern[1])

\* the file classifier is about to work on a record that is still UNSEEN
ClassifyingUnseenFile ==
    /\ Classifying("file")
    /\ HasRecord(CurPath)
    /\ Info(RecordOf(CurPath)).status = "FS_UNSEEN"

\* the record of the current entry after the step
InfoAfter == g_filelist'.nodes[RecordOf(CurPath)].value

\* the condition under which the file classifier does not read the content
QuickSeen ==
    LET rec == Info(RecordOf(CurPath))
        st == StatOf(fs, CurStat)
        diff == st.st_mtime - rec.mtime
    IN  /\ ~gopt.fullcheck
        /\ (IF diff < 0 THEN -diff ELSE diff) <= gopt.modify_window
        /\ st.st_size = rec.size

\* the digest of the content of the current entry
CurDigest == [size |-> DigestSize(gopt.digesttype), data |-> fs[CurStat].data]

\* C1: in batch mode, when the scan has completed, the exit code is 0
\* exactly when every record has status SEEN or TOUCHED (an empty table is
\* clean), and 1 otherwise.
C1_BatchExitCode ==
    [][(pc = "scanned" /\ gopt.batch /\ pc' = "exit")
       => retcode' = IF \A n \in Records(g_filelist') :
                           g_filelist'.nodes[n].value.status \in {"FS_SEEN", "FS_TOUCHED"}
                      THEN 0 ELSE 1]_vars

\* a batch run that ended clean with a SEEN and a TOUCHED record
C1_Witness ==
    /\ pc = "exit"
    /\ gopt.batch
    /\ retcode = 0
    /\ \E n, m \in Records(g_filelist) :
          Info(n).status = "FS_SEEN" /\ Info(m).status = "FS_TOUCHED"

\* C2: for a regular file whose record is UNSEEN, the classifier sets SEEN
\* exactly when the full check is off, the mtime is within the modify
\* window and the size is equal; the content is then not read, so a content
\* change with equal mtime and size is SEEN without the full check and, the
\* file being readable, CHANGED with it.
C2_QuickSeen ==
    [][ClassifyingUnseenFile
       => /\ InfoAfter.status = "FS_SEEN" <=> QuickSeen
          /\ QuickSeen => InfoAfter = [Info(RecordOf(CurPath)) EXCEPT !.status = "FS_SEEN"]
          /\ LET rec == Info(RecordOf(CurPath))
                 st == StatOf(fs, CurStat)
             IN  ( /\ rec.digest # << >>
                   /\ rec.digest[1] # CurDigest
                   /\ st.st_mtime = rec.mtime
                   /\ st.st_size = rec.size
                   /\ fs[CurStat].err = "ok" )
                 => InfoAfter.status = IF gopt.fullcheck THEN "FS_CHANGED" ELSE "FS_SEEN"]_vars

\* a record that is SEEN although the content on disk has another digest
C2_Witness ==
    \E n \in Records(g_filelist) :
        /\ Info(n).status = "FS_SEEN"
        /\ Info(n).digest # << >>
        /\ mystat(fs, Path(n)) # 0
        /\ fs[mystat(fs, Path(n))].type = "file"
        /\ fs[mystat(fs, Path(n))].data # Info(n).digest[1].data

\* C3: when the classifier recomputes the digest of a file whose record is
\* UNSEEN and the read succeeds, an equal digest gives TOUCHED with mtime
\* and size taken from the stat and the digest left alone, and a different
\* digest gives CHANGED with the stored digest replaced by the new one.
C3_Recompute ==
    [][(ClassifyingUnseenFile /\ ~QuickSeen /\ fs[CurStat].err = "ok")
       => LET rec == Info(RecordOf(CurPath))
              st == StatOf(fs, CurStat)
          IN  IF rec.digest # << >> /\ rec.digest[1] = CurDigest
              THEN InfoAfter = [rec EXCEPT !.status = "FS_TOUCHED", !.mtime = st.st_mtime,
                                           !.size = st.st_size]
              ELSE /\ InfoAfter.status = "FS_CHANGED"
                   /\ InfoAfter.digest = << CurDigest >>]_vars

\* a record whose digest was replaced by the digest of the content on disk
C3_Witness ==
    \E n \in Records(g_filelist) :
        /\ Info(n).status = "FS_CHANGED"
        /\ mystat(fs, Path(n)) # 0
        /\ fs[mystat(fs, Path(n))].type = "file"
        /\ Info(n).digest = << [size |-> DigestSize(gopt.digesttype),
                                data |-> fs[mystat(fs, Path(n))].data] >>
        /\ Info(n).mtime = MaxMtime

\* the paths recorded in the digest map with a digest equal to d
PreExisting(d) ==
    { g_filedigestmap.nodes[i].value :
        i \in { j \in Records(g_filedigestmap) : g_filedigestmap.nodes[j].key = d } }

\* the records created by the scan for regular files that could be read
NewFiles ==
    { n \in Records(g_filelist) :
        Info(n).status \in {"FS_NEW", "FS_COPIED", "FS_RENAMED"} /\ Info(n).digest # << >> }

\* C4: if at least one record of the digest file has the digest of a newly
\* discovered file and a path that still exists on disk, the new path is
\* COPIED and its oldpath is the path of one of those still existing records.
C4_Copied ==
    \A n \in NewFiles :
        LET live == { p \in PreExisting(Info(n).digest[1]) : access(fs, p) }
        IN  live # {} => /\ Info(n).status = "FS_COPIED"
                         /\ Info(n).oldpath # << >>
                         /\ Info(n).oldpath[1] \in live

\* C5: if records of the digest file have the digest of a newly discovered
\* file and none of their paths exists on disk, the new path is RENAMED with
\* oldpath one of them, and at the end of the scan every one of those
\* records is OLDPATH.
C5_Renamed ==
    \A n \in NewFiles :
        LET old == PreExisting(Info(n).digest[1])
        IN  (old # {} /\ \A p \in old : ~access(fs, p))
            => /\ Info(n).status = "FS_RENAMED"
               /\ Info(n).oldpath # << >>
               /\ Info(n).oldpath[1] \in old
               /\ pc = "scanned" => \A p \in old : Info(RecordOf(p)).status = "FS_OLDPATH"

\* a record absent from the disk whose content no new path carries
Vanished(n) ==
    /\ mylstat(fs, Path(n)) = 0
    /\ \A m \in NewFiles : Info(n).digest # Info(m).digest

Range(seq) == { seq[i] : i \in 1..Len(seq) }

\* C6 as stated: a record of the digest file whose path is absent on disk
\* and whose content is at no new path is UNSEEN when the scan ends and is
\* listed by the deleted query.
C6_Deleted ==
    pc \in {"scanned", "review"}
    => \A n \in Records(g_filelist) :
          Vanished(n)
          => /\ Info(n).status = "FS_UNSEEN"
             /\ Path(n) \in Range(cmd_deleted(g_filelist))
             /\ listing.cmd = "deleted" => Path(n) \in Range(listing.lines)

\* C6 amended: the same for the records that the restrict pattern did not
\* mark SKIPPED when the digest file was loaded.
C6_DeletedUnlessSkipped ==
    pc \in {"scanned", "review"}
    => \A n \in Records(g_filelist) :
          (Vanished(n) /\ Info(n).status # "FS_SKIPPED")
          => /\ Info(n).status = "FS_UNSEEN"
             /\ Path(n) \in Range(cmd_deleted(g_filelist))
             /\ listing.cmd = "deleted" => Path(n) \in Range(listing.lines)

\* the deleted query lists a vanished record next to a new file with
\* another content
C6_Witness ==
    /\ pc = "review"
    /\ listing.cmd = "deleted"
    /\ \E n \in Records(g_filelist) :
          /\ Vanished(n)
          /\ Info(n).digest # << >>
          /\ Info(n).status = "FS_UNSEEN"
          /\ Path(n) \in Range(listing.lines)
    /\ \E m \in NewFiles : Info(m).status = "FS_NEW"

\* the classifier of the current entry finds a record that is not UNSEEN
SecondClassification ==
    /\ Classifying("file") \/ Classifying("symlink")
    /\ HasRecord(CurPath)
    /\ Info(RecordOf(CurPath)).status # "FS_UNSEEN"

\* C7: once the digest file is loaded, the status of a record changes only
\* from UNSEEN to SEEN, TOUCHED, CHANGED, ERROR or OLDPATH; records are
\* created only as NEW, COPIED, RENAMED or ERROR; every other status,
\* SKIPPED included, is final; and classifying a record that is not UNSEEN
\* changes nothing.
C7_Transitions ==
    [][pc \notin {"start", "parse"}
       => /\ \A n \in Records(g_filelist) :
                /\ n \in Records(g_filelist')
                /\ g_filelist'.nodes[n].key = Path(n)
                /\ \/ g_filelist'.nodes[n].value.status = Info(n).status
                   \/ /\ Info(n).status = "FS_UNSEEN"
                      /\ g_filelist'.nodes[n].value.status
                            \in {"FS_SEEN", "FS_TOUCHED", "FS_CHANGED", "FS_ERROR", "FS_OLDPATH"}
          /\ \A n \in Records(g_filelist') \ Records(g_filelist) :
                g_filelist'.nodes[n].value.status
                    \in {"FS_NEW", "FS_COPIED", "FS_RENAMED", "FS_ERROR"}
          /\ SecondClassification
             => g_filelist' = g_filelist /\ counters' = counters]_vars

\* the walker has visited a dangling symbolic link whose record had become
\* OLDPATH when a file before it was classified
C7_Witness ==
    /\ pc = "scanned"
    /\ ~gopt.followsymlinks
    /\ \E n \in Records(g_filelist) :
          /\ Info(n).status = "FS_OLDPATH"
          /\ mylstat(fs, Path(n)) # 0
          /\ gopt.matchpattern # << >> => strstr(Path(n), gopt.matchpattern[1])

\* C8: no record has both a digest and a symlink target, after parsing and
\* after every classification step.
C8_DigestXorSymlink ==
    \A n \in Records(g_filelist) : ~(Info(n).digest # << >> /\ Info(n).symlink # << >>)

\* C9: at the end of the scan every record with an oldpath is COPIED or
\* RENAMED, and the record at that oldpath is OLDPATH exactly when the file
\* at that path no longer exists.
C9_Oldpath ==
    pc = "scanned"
    => \A n \in Records(g_filelist) :
          Info(n).oldpath # << >>
          => /\ Info(n).status \in {"FS_COPIED", "FS_RENAMED"}
             /\ HasRecord(Info(n).oldpath[1])
             /\ Info(RecordOf(Info(n).oldpath[1])).status = "FS_OLDPATH"
                <=> ~access(fs, Info(n).oldpath[1])

\* the path a line of a digest file records: << >> or << path >>
LinePath(line) ==
    IF line.kind = "digest"
    THEN << IF line.escaped THEN unescape_filename(line.path)[2] ELSE line.path >>
    ELSE IF line.kind = "meta"
    THEN LET last == line.items[Len(line.items)]
         IN  IF Len(line.items) = 0 THEN << >>
             ELSE IF last.key = "symlink" THEN << last.str >>
             ELSE IF last.key = "symlink\\" THEN << unescape_filename(last.str)[2] >>
             ELSE << >>
    ELSE << >>

\* the paths recorded in the digest file of the file system f
EmittedPaths(f) ==
    LET lines == f[mystat(f, gopt.digestfile[1])].lines
    IN  { LinePath(lines[i])[1] : i \in { j \in 1..Len(lines) : LinePath(lines[j]) # << >> } }

\* a step in which cmd_write replaced the digest file and returned
WriteCompleted == fs' # fs /\ pc' # "crash"

RECURSIVE VisitOrder(_, _)
VisitOrder(tree, node) ==
    IF node = rb_end(tree) THEN << >>
    ELSE << tree.nodes[node].key >> \o VisitOrder(tree, rb_successor(tree, node))

\* the digest file holds a line, other than the first, that records path
DuplicateLine(path) ==
    /\ SumfileExists
    /\ Cardinality({ i \in 1..Len(SumfileLines) : LinePath(SumfileLines[i]) = << path >> }) > 1

\* C11: in every state, after parsing as well as after any number of
\* classification steps, no two records of the path table have the same
\* path, and the loop of the serializer visits every record, in strictly
\* increasing strcmp order of the paths.
C11_UniqueSorted ==
    LET order == VisitOrder(g_filelist, rb_begin(g_filelist))
    IN  /\ \A m, n \in Records(g_filelist) : m # n => Path(m) # Path(n)
        /\ Len(order) = Cardinality(Records(g_filelist))
        /\ \A i \in 1..(Len(order) - 1) : strcmp(order[i], order[i + 1]) < 0

\* a digest file with two lines for path a has been parsed, and the scan has
\* classified the records of a and b
C11_Witness ==
    /\ pc = "scanned"
    /\ DuplicateLine(Names[1])
    /\ Cardinality(Records(g_filelist)) >= 2
    /\ \E n \in Records(g_filelist) : Info(n).status = "FS_SEEN"

\* the getline loop of read_digestfile over lines from line k on, with
\* answer n at the prompt: [filelist, res, exit], res the result for the
\* last line read
RECURSIVE read_lines(_, _, _, _, _, _)
read_lines(lines, k, ti, go, fl, res) ==
    IF k > Len(lines) THEN [filelist |-> fl, res |-> res, exit |-> "no"]
    ELSE LET r == parse_digestline(lines[k], ti, go, fl,
                                   fprintfcrc(<< >>, SubSeq(lines, 1, k - 1)), "n", FALSE)
         IN  IF r.exit # "no" \/ r.res = -1
             THEN [filelist |-> r.filelist, res |-> r.res,
                   exit |-> IF r.exit # "no" THEN r.exit ELSE "error"]
             ELSE read_lines(lines, k + 1,
                             IF r.res # 0 THEN FileInfo0("FS_UNSEEN") ELSE r.tempinfo,
                             r.gopt, r.filelist, r.res)

\* the records read_digestfile commits for a digest file, in the order of
\* the file (the order in which rb_insert allocates their nodes)
FileRecords(lines) ==
    LET fl == read_lines(lines, 1, FileInfo0("FS_UNSEEN"), gopt, rb_create("string"), 0).filelist
    IN  [ i \in 1..(Len(fl.nodes) - 2) |->
            [path |-> fl.nodes[i + 2].key, mtime |-> fl.nodes[i + 2].value.mtime,
             size |-> fl.nodes[i + 2].value.size, digest |-> fl.nodes[i + 2].value.digest,
             symlink |-> fl.nodes[i + 2].value.symlink] ]

\* a digest file that parses without a complaint: no line is rejected, the
\* CRC matches, and the last line ends with eof
ValidFile(lines) ==
    LET r == read_lines(lines, 1, FileInfo0("FS_UNSEEN"), gopt, rb_create("string"), 0)
    IN  r.exit = "no" /\ r.res = -2

\* a digest file in the form cmd_write gives it: the paths strictly
\* increasing, every record with either a digest or a symlink target
SerializedForm(lines) ==
    LET recs == FileRecords(lines)
    IN  /\ \A i \in 1..(Len(recs) - 1) : strcmp(recs[i].path, recs[i + 1].path) < 0
        /\ \A i \in 1..Len(recs) : (recs[i].digest = << >>) # (recs[i].symlink = << >>)

\* a step in which cmd_write rewrites a valid digest file whose records
\* have all been found unchanged by the scan
RoundTripStep ==
    /\ WriteCompleted
    /\ SumfileExists
    /\ ValidFile(SumfileLines)
    /\ Len(FileRecords(SumfileLines)) > 0
    /\ \A n \in Records(g_filelist) : Info(n).status = "FS_SEEN"

\* the lines of the digest file after the step
SumfileLinesNext == fs'[mystat(fs', gopt.digestfile[1])].lines

NextParse(lines) ==
    read_lines(lines, 1, FileInfo0("FS_UNSEEN"), gopt, rb_create("string"), 0)

\* C13: the last line cmd_write prints holds, after the key crc, the CRC
\* started from 0 over all the lines printed before it, followed by eof;
\* and the run that reads this file next arrives at that line with an equal
\* CRC, so that it neither exits nor prompts, and returns at eof.
C13_TrailerCrc ==
    [][WriteCompleted
         => LET lines == SumfileLinesNext
                trailer == lines[Len(lines)]
            IN  /\ trailer.kind = "meta"
                /\ Len(trailer.items) = 2
                /\ trailer.items[1].key = "crc" /\ trailer.items[1].ok
                /\ trailer.items[1].str = fprintfcrc(<< >>, SubSeq(lines, 1, Len(lines) - 1))
                /\ trailer.items[2].key = "eof"
                /\ NextParse(lines).exit = "no"
                /\ NextParse(lines).res = -2]_vars

\* cmd_write has printed a header, two records and the trailer
C13_Witness ==
    /\ pc = "exit"
    /\ SumfileExists
    /\ fs[mystat(fs, gopt.digestfile[1])].mtime = Now
    /\ Len(SumfileLines) = 6
    /\ SumfileLines[6].items[1].str = SubSeq(SumfileLines, 1, 5)

\* the next line to read starts with a well-formed crc value that differs
\* from the CRC of the lines read so far
CrcMismatchAhead ==
    /\ pc = "parse"
    /\ linenum < Len(SumfileLines)
    /\ LET line == SumfileLines[linenum + 1]
       IN  /\ line.kind = "meta"
           /\ Len(line.items) > 0
           /\ line.items[1].key = "crc"
           /\ line.items[1].ok
           /\ line.items[1].str # fprintfcrc(<< >>, SubSeq(SumfileLines, 1, linenum))

\* nothing has been scanned: no directory is open and no record classified
NothingScanned ==
    /\ dirstack = << >>
    /\ frames = << >>
    /\ counters = EmptyCounters
    /\ \A n \in Records(g_filelist) : Info(n).status = "FS_UNSEEN"

\* C14: when the crc value of the trailer differs from the CRC of the lines
\* before it, a batch run exits with a non-zero status, having scanned and
\* written nothing; an interactive run goes on parsing when the answer to
\* the prompt starts with y, and on every other answer exits like the batch
\* run.
C14_CrcMismatch ==
    [][CrcMismatchAhead
         => /\ \A answer \in Answers, ub \in BOOLEAN :
                 LET r == parse_digestline(SumfileLines[linenum + 1], tempinfo, gopt,
                                           g_filelist,
                                           fprintfcrc(<< >>, SubSeq(SumfileLines, 1, linenum)),
                                           answer, ub)
                 IN  (r.exit = "no") <=> (~gopt.batch /\ answer = "y")
            /\ \/ ~gopt.batch /\ pc' = "parse" /\ linenum' = linenum + 1
               \/ pc' = "exit" /\ retcode' # 0
            /\ gopt.batch => pc' = "exit"
            /\ fs' = fs
            /\ NothingScanned']_vars

\* a batch run has stopped at the trailer of the digest file whose digest
\* of a was edited
C14_Witness ==
    /\ pc = "exit"
    /\ retcode = -1
    /\ gopt.batch
    /\ SumfileExists
    /\ SumfileLines = EditedSumfile
    /\ linenum = Len(SumfileLines)

\* the digest file exists, and no line of it holds the key eof
TrailerMissing ==
    /\ SumfileExists
    /\ \A i \in 1..Len(SumfileLines) :
         \/ SumfileLines[i].kind # "meta"
         \/ \A k \in 1..Len(SumfileLines[i].items) : SumfileLines[i].items[k].key # "eof"

\* C15: a run that finds the digest file without its crc/eof trailer line,
\* as a write that died part-way leaves it, treats the file as corrupt: it
\* does not go on to scan with the records read, and ends with the status
\* of a fatal error.
C15_TruncatedDetected ==
    TrailerMissing
        => /\ pc \in {"start", "parse", "exit", "crash"}
           /\ pc = "exit" => retcode = -1

\* parse_digestline returns -1 for the next line to read: an unknown line,
\* an improper digest, type indicator or escape, or a path already recorded
ParseErrorAhead ==
    /\ pc = "parse"
    /\ linenum < Len(SumfileLines)
    /\ parse_digestline(SumfileLines[linenum + 1], tempinfo, gopt, g_filelist,
                        fprintfcrc(<< >>, SubSeq(SumfileLines, 1, linenum)),
                        "y", FALSE).res = -1

\* C16: when a line of the digest file is a parse error (an unknown line, a
\* malformed hex digest, a path recorded twice, an improper escape), the run
\* ends at that line with a non-zero exit status, in every mode, having
\* scanned nothing and leaving the file system as it was.
C16_ParseErrorFatal ==
    [][ParseErrorAhead
         => /\ pc' = "exit"
            /\ retcode' # 0
            /\ fs' = fs
            /\ NothingScanned']_vars

\* the next line to read is a digest line whose number of hex digits selects
\* another algorithm than the one in gopt_digesttype
AlgorithmMismatchAhead ==
    /\ pc = "parse"
    /\ linenum < Len(SumfileLines)
    /\ LET line == SumfileLines[linenum + 1]
       IN  /\ line.kind = "digest"
           /\ line.sep
           /\ HexLenType(line.digest.size) # "DT_NONE"
           /\ gopt.digesttype # "DT_NONE"
           /\ HexLenType(line.digest.size) # gopt.digesttype

\* C17: when a digest line selects another algorithm than the one already
\* established by --type or by an earlier line, parsing stops there and the
\* run ends with a non-zero exit status.
C17_AlgorithmMismatch ==
    [][AlgorithmMismatchAhead => pc' = "exit" /\ retcode' # 0]_vars

\* a batch run for sha1sum.txt has ended in a directory that holds nothing,
\* or nothing but sha1sum.txt
FreshBatchExit ==
    /\ pc = "exit"
    /\ gopt.batch
    /\ gopt.digestfile = << DefaultDigestfiles[2].name >>
    /\ gopt.digesttype = "DT_SHA1"
    /\ DOMAIN fs[1].entries \subseteq { DefaultDigestfiles[2].name }

\* sha1sum.txt holds the header line and a trailer with the CRC of the
\* header line, and nothing else
HeaderAndTrailer ==
    /\ SumfileExists
    /\ Len(SumfileLines) = 2
    /\ SumfileLines[1] = [kind |-> "comment"]
    /\ SumfileLines[2] = write_trailer(fprintfcrc(<< >>, << SumfileLines[1] >>))
    /\ ValidFile(SumfileLines)

\* C18 as stated: with no digest file and an empty directory, digup -b -t
\* sha1 exits 0 and leaves sha1sum.txt with the header line and a matching
\* trailer only.
C18_FreshBatch ==
    FreshBatchExit /\ ~gopt.update
        => retcode = 0 /\ HeaderAndTrailer

\* C18, amended: with no digest file and an empty directory, digup -b -u -t
\* sha1 exits 0 and leaves sha1sum.txt with the header line and a matching
\* trailer only; without -u the run exits 0 and creates no file.
C18_FreshBatchUpdate ==
    FreshBatchExit
        => /\ retcode = 0
           /\ IF gopt.update THEN HeaderAndTrailer
              ELSE DOMAIN fs[1].entries = {}

\* digup -b -u -t sha1 has ended in the empty directory and sha1sum.txt is
\* there
C18_Witness ==
    /\ FreshBatchExit
    /\ gopt.update
    /\ DOMAIN fs[1].entries = { DefaultDigestfiles[2].name }
    /\ Len(SumfileLines) = 2

\* C19: the file system, and with it the digest file, changes only in a
\* step that runs cmd_write, which is the write command of the review or the
\* end of a batch run with --update, and then only as cmd_write changes it;
\* every other step, among them quit, end of input, the exits of the parser
\* and the end of a batch run without --update, leaves it as it was.
C19_OnlyWrite ==
    [][fs' # fs
         => /\ \/ pc = "review"
               \/ pc = "scanned" /\ gopt.batch /\ gopt.update
            /\ \E cut \in 0..MaxCut : fs' = cmd_write(fs, gopt, g_filelist, cut).fs]_vars

\* a batch run without --update has found a new file and ended, and the
\* digest file is the one that was there at the start
C19_Witness ==
    /\ pc = "exit"
    /\ retcode = 1
    /\ gopt.batch /\ ~gopt.update
    /\ SumfileExists
    /\ fs[mystat(fs, gopt.digestfile[1])].mtime = 0
    /\ SumfileLines \in ParseSumfiles
    /\ counters.new > 0

\* the nodes in the order of the loop for (node = rb_begin(tree);
\* node != rb_end(tree); node = rb_successor(tree, node))
RECURSIVE VisitNodes(_, _)
VisitNodes(tree, node) ==
    IF node = rb_end(tree) THEN << >>
    ELSE << node >> \o VisitNodes(tree, rb_successor(tree, node))

\* the digests that are looked up: those of the file contents, and one more
LookupKeys == { [size |-> DigestSize("DT_SHA1"), data |-> d] : d \in 1..3 }

\* C20: after any sequence of inserts into the digest map, rb_find returns
\* NULL for a key that no entry has, and otherwise the first entry in
\* iteration order whose key equals the key looked up, so that the entries
\* with this key are those met by walking rb_successor from the result
\* while the key stays equal.
C20_FindFirst ==
    \A key \in LookupKeys :
        LET order == VisitNodes(g_filedigestmap, rb_begin(g_filedigestmap))
            hits == { i \in 1..Len(order) :
                        compare_keys(g_filedigestmap, g_filedigestmap.nodes[order[i]].key, key) = 0 }
            first == CHOOSE i \in hits : \A j \in hits : i <= j
        IN  IF hits = {} THEN rb_find(g_filedigestmap, key) = NULL
            ELSE rb_find(g_filedigestmap, key) = order[first]

\* the nodes that rb_begin and rb_successor visit up to rb_end, in the order
\* of the visit, at most fuel of them
RECURSIVE Walk(_, _, _)
Walk(tree, node, fuel) ==
    IF node = rb_end(tree) \/ fuel = 0 THEN << >>
    ELSE << node >> \o Walk(tree, rb_successor(tree, node), fuel - 1)

Iteration(tree) == Walk(tree, rb_begin(tree), Len(tree.nodes))

\* C21: after any sequence of rb_insert and rb_delete calls the iteration
\* from rb_begin by rb_successor to rb_end visits exactly the entries inserted
\* and not yet deleted, each once, in non-decreasing key order; rb_size is
\* their number and rb_isempty holds exactly when there is none.
C21_IterationSorted ==
    pc = "test" =>
        LET walk == Iteration(g_filelist)
            live == LiveNodes(g_filelist)
        IN  /\ Len(walk) = Cardinality(live)
            /\ { walk[i] : i \in 1..Len(walk) } = live
            /\ \A i \in 1..(Len(walk) - 1) :
                   compare_keys(g_filelist, g_filelist.nodes[walk[i]].key,
                                g_filelist.nodes[walk[i + 1]].key) <= 0
            /\ rb_size(g_filelist) = Cardinality(live)
            /\ rb_isempty(g_filelist) = (Cardinality(live) = 0)

\* all insertions made, two entries deleted, equal keys left in the tree
C21_Witness ==
    /\ pc = "test"
    /\ Len(g_filelist.nodes) - 2 = MaxInserts
    /\ Cardinality(LiveNodes(g_filelist)) = MaxInserts - 2
    /\ \E m, n \in LiveNodes(g_filelist) :
           m # n /\ g_filelist.nodes[m].key = g_filelist.nodes[n].key
    /\ Iteration(g_filelist) # << >>

\* the directories above an inode, up to the directory of the scan
RECURSIVE Ancestors(_, _)
Ancestors(f, i) == IF i = 1 THEN {1} ELSE {f[i].parent} \cup Ancestors(f, f[i].parent)

\* the directory holds an entry named as the exclude marker
Excluded(f, go, dir) ==
    go.exclude_marker # << >> /\ go.exclude_marker[1] \in DOMAIN f[dir].entries

\* the symbolic links to a directory above them, in directories that the
\* scan enters
LoopLinks ==
    { i \in 2..Len(fs) :
        /\ fs[i].type = "symlink"
        /\ namei(fs, fs[i].parent, SplitPath(fs[i].target, << >>), TRUE, MaxSymlinks)
               \in Ancestors(fs, i)
        /\ \A a \in Ancestors(fs, i) : ~Excluded(fs, gopt, a) }

ScanDone == pc \notin {"start", "parse", "scan", "walk"}

LoopMessages == { k \in 1..Len(stderr) : stderr[k].msg = "filesystem loop detected" }

\* the for loop is at an entry that leads to a directory being scanned
AtLoop == AtEntry /\ CurKind = "dir" /\ ~dirstack_push(dirstack, StatOf(fs, CurStat)).ok

\* C22: with --links the scan of a tree in which a symbolic link points at
\* a directory above it terminates; the link gets the diagnostic "filesystem
\* loop detected", and the scan goes on with the next entry of the directory
\* that holds the link.
C22_LoopTerminates ==
    /\ pc = "scan" ~> ScanDone
    /\ [](Walking => Len(frames) > 0)
    /\ [](ScanDone /\ pc # "crash" /\ gopt.followsymlinks /\ LoopLinks # {}
            => LoopMessages # {})
    /\ [][AtLoop => /\ stderr' = Append(stderr, [msg |-> "filesystem loop detected",
                                                 path |-> CurFilepath])
                    /\ frames' = [frames EXCEPT ![Len(frames)].fi = @ + 1]
                    /\ dirstack' = dirstack
                    /\ pc' = "walk"]_vars

\* the scan is over, the loops at d/h and d/c/h were reported, and d/m, the
\* entry after d/h, has its record
C22_Witness ==
    /\ ScanDone
    /\ gopt.followsymlinks
    /\ Cardinality(LoopLinks) = 2
    /\ Cardinality(LoopMessages) = 2
    /\ \E n \in Records(g_filelist) :
           /\ Path(n) = Names[4] \o << "/" >> \o Names[6]
           /\ Info(n).status = "FS_NEW"

\* the directory that holds the entry at a path, as the scan reaches it
DirOf(f, path) ==
    namei(f, 1, SubSeq(SplitPath(path, << >>), 1, Len(SplitPath(path, << >>)) - 1),
          TRUE, MaxSymlinks)

\* C23: when a directory holds an entry named as the exclude marker, wherever
\* that name sorts among the entries, the loop over its entries is never run:
\* no path in it is classified and no subdirectory of it is entered.
C23_ExcludedUntouched ==
    /\ \A k \in 1..Len(frames) : ~Excluded(fs, gopt, frames[k].st.st_ino)
    /\ \A n \in Records(g_filelist) :
           Info(n).status # "FS_UNSEEN" => ~Excluded(fs, gopt, DirOf(fs, Path(n)))

\* the marker m is the last entry of d: after the scan the recorded d/a is
\* still unseen, nothing else of d has a record, and n has been classified,
\* as a copy of d/a
C23_Witness ==
    /\ pc = "scanned"
    /\ gopt.exclude_marker = << Names[6] >>
    /\ Excluded(fs, gopt, 3)
    /\ \E n \in Records(g_filelist) :
           Path(n) = Names[4] \o << "/" >> \o Names[1] /\ Info(n).status = "FS_UNSEEN"
    /\ \E n \in Records(g_filelist) : Path(n) = Names[7] /\ Info(n).status = "FS_COPIED"
    /\ Cardinality(Records(g_filelist)) = 2

\* C24: the digest file is never classified and never gets a record of its
\* own, however --file spells its path: no record of the table names the
\* file that gopt_digestfile names.
C24_DigestfileSkipped ==
    SumfileExists =>
        \A n \in Records(g_filelist) : mystat(fs, Path(n)) # mystat(fs, gopt.digestfile[1])

\* C25: a second run over the tree that the first run left, with the same
\* options, writes the digest file that the first run wrote: no step of the
\* second run other than a dying write changes the lines of the file.
C25_SecondRunIdentical ==
    [][run > 1 /\ pc' # "crash" => SumfileLinesNext = SumfileLines]_vars

\* C26: under --restrict a file that the scan classifies is never RENAMED or
\* COPIED from a record that the pattern has marked SKIPPED: such records
\* take no part in the lookup by digest, and the file is NEW.
C26_SkippedNotIndexed ==
    gopt.matchpattern # << >> =>
        \A n, m \in Records(g_filelist) :
            /\ Info(n).status \in {"FS_RENAMED", "FS_COPIED"}
            /\ Info(n).oldpath = << Path(m) >>
            => Info(m).status # "FS_SKIPPED"

\* C27: under --restrict the classifier recomputes the digest of every file
\* that matches the pattern and has an UNSEEN record: none is set SEEN on
\* its mtime and size.
C27_RestrictFullCheck ==
    [][(ClassifyingUnseenFile /\ gopt.matchpattern # << >>)
       => InfoAfter.status # "FS_SEEN"]_vars

\* the symlink classifier is about to work on a record that is still UNSEEN
ClassifyingUnseenSymlink ==
    /\ Classifying("symlink")
    /\ HasRecord(CurPath)
    /\ Info(RecordOf(CurPath)).status = "FS_UNSEEN"

\* C28: the symlink classifier decides as the file classifier does: without
\* the full check, an lstat mtime within the modify window and an equal size
\* give SEEN; otherwise the link is read, and the record is TOUCHED when the
\* target is the recorded one and CHANGED when it is not.
C28_SymlinkAsFile ==
    [][(ClassifyingUnseenSymlink /\ readlink_dup(fs, CurPath) # << >>)
       => InfoAfter.status =
              IF QuickSeen THEN "FS_SEEN"
              ELSE IF Info(RecordOf(CurPath)).symlink = readlink_dup(fs, CurPath)
              THEN "FS_TOUCHED" ELSE "FS_CHANGED"]_vars

\* the classifier of the current entry will read it, and the read fails: a
\* regular file that cannot be opened or read or is shorter than its size,
\* or a symbolic link that readlink cannot read
ReadFails ==
    /\ \/ /\ Classifying("file")
          /\ fs[CurStat].err \in {"open", "read", "short"}
          /\ HasRecord(CurPath) => ~QuickSeen
       \/ /\ Classifying("symlink")
          /\ fs[CurLstat].err = "readlink"
          /\ HasRecord(CurPath) =>
                 \/ gopt.fullcheck
                 \/ StatOf(fs, CurLstat).st_mtime # Info(RecordOf(CurPath)).mtime
                 \/ StatOf(fs, CurLstat).st_size # Info(RecordOf(CurPath)).size
    /\ HasRecord(CurPath) => Info(RecordOf(CurPath)).status = "FS_UNSEEN"
    /\ gopt.digesttype # "DT_NONE"

\* C29: a failed open, read or readlink and a short read put the record of
\* that path, and no other, into ERROR with an error string, the walk goes
\* on with the next entry, and only ERROR records carry an error string.
C29_ErrorAbsorbed ==
    /\ [](\A n \in Records(g_filelist) :
              (Info(n).error # << >>) <=> (Info(n).status = "FS_ERROR"))
    /\ [][ReadFails
          => /\ \E n \in Records(g_filelist') :
                    /\ g_filelist'.nodes[n].key = CurPath
                    /\ g_filelist'.nodes[n].value.status = "FS_ERROR"
                    /\ g_filelist'.nodes[n].value.error # << >>
             /\ \A n \in Records(g_filelist) :
                    Path(n) # CurPath
                    => /\ g_filelist'.nodes[n].key = Path(n)
                       /\ g_filelist'.nodes[n].value = Info(n)
             /\ Cardinality(Records(g_filelist'))
                    = Cardinality(Records(g_filelist)) + (IF HasRecord(CurPath) THEN 0 ELSE 1)
             /\ frames' = [frames EXCEPT ![Len(frames)].fi = @ + 1]
             /\ pc' = "walk"]_vars

\* the scan is over: a is in ERROR and b, the entry after it, is classified
C29_Witness ==
    /\ pc = "scanned"
    /\ \E n, m \in Records(g_filelist) :
           /\ Path(n) = Names[1]
           /\ Info(n).status = "FS_ERROR"
           /\ Info(n).error # << >>
           /\ Path(m) = Names[2]
           /\ Info(m).status \notin {"FS_UNSEEN", "FS_ERROR"}

\* C30: for every string p, unescape_filename applied to the string that
\* needescape_filename made of p succeeds and gives p back.
C30_EscapeRoundTrip ==
    pc = "unescaped" => str1.ret /\ str1.s = str1.p

\* a string with a newline that ends in a backslash went through both calls
C30_Witness ==
    /\ pc = "unescaped"
    /\ Len(str1.p) = MaxLen
    /\ str1.p[MaxLen] = "\\"
    /\ \E i \in 1..MaxLen : str1.p[i] = "\n"

\* the number of backslashes in a row that end right before position i
BackslashRun(p, i) ==
    Cardinality({ j \in 1..(i - 1) : \A m \in j..(i - 1) : p[m] = "\\" })

\* a backslash at i that is not the second character of a pair
StartsEscape(p, i) == p[i] = "\\" /\ BackslashRun(p, i) % 2 = 0

BadFollower(p, i) == i = Len(p) \/ p[i + 1] \notin { "n", "\\" }

\* C31: unescape_filename fails exactly for the strings in which a backslash
\* that starts an escape sequence is followed by a character other than n or
\* backslash, or ends the string.
C31_UnescapeFailure ==
    pc = "decoded" =>
        (~str1.ret <=> \E i \in 1..Len(str1.p) : StartsEscape(str1.p, i) /\ BadFollower(str1.p, i))

\* a string of three backslashes was rejected for the last of them
C31_Witness ==
    /\ pc = "decoded"
    /\ str1.p = << "\\", "\\", "\\" >>
    /\ ~str1.ret

\* C31 as stated: failure exactly when any backslash of the string is
\* followed by a character other than n or backslash, or is the last one.
C31_AnyBackslash ==
    pc = "decoded" =>
        (~str1.ret <=> \E i \in 1..Len(str1.p) : str1.p[i] = "\\" /\ BadFollower(str1.p, i))

\* the records of the table
TableRecords ==
    { [path |-> Path(n), mtime |-> Info(n).mtime, size |-> Info(n).size,
       digest |-> Info(n).digest, symlink |-> Info(n).symlink] : n \in Records(g_filelist) }

\* the line with its "\r\n" replaced by "\n"
LfLine(line) ==
    IF line.kind = "comment" THEN [kind |-> "comment"]
    ELSE IF line.kind = "meta" THEN [kind |-> "meta", items |-> line.items]
    ELSE [kind |-> "digest", escaped |-> line.escaped, sep |-> line.sep,
          digest |-> line.digest, type |-> line.type, path |-> line.path]

LfLines(lines) == [ i \in 1..Len(lines) |-> LfLine(lines[i]) ]

\* C32: when the digest file has been parsed, the table holds the records
\* that the same file with LF line endings gives, whether its lines end
\* with LF or with CRLF.
C32_CrlfSameRecords ==
    pc = "scan" => TableRecords = Range(FileRecords(LfLines(SumfileLines)))

\* the #: option lines of a digest file
OptionLinesOf(lines) ==
    SelectSeq(lines, LAMBDA l : l.kind = "meta" /\ \E k \in 1..Len(l.items) :
                                                      l.items[k].key = "option")

\* C33: a write with an exclude marker in effect leaves exactly one option
\* line in the digest file, which holds the marker, and a later run without
\* --exclude-marker scans with the marker of the option line of the file.
C33_MarkerPersists ==
    /\ [][WriteCompleted /\ gopt.exclude_marker # << >>
            => OptionLinesOf(SumfileLinesNext) =
                 << [kind |-> "meta",
                     items |-> << Item("option", TRUE, 0, gopt.exclude_marker[1]) >>] >>]_vars
    /\ [](run > 1 /\ pc = "scan" /\ Len(OptionLinesOf(SumfileLines)) = 1
            => gopt.exclude_marker = << OptionLinesOf(SumfileLines)[1].items[1].str >>)

\* a step of the getline loop that commits a record
ParseCommit == pc = "parse" /\ Len(g_filelist'.nodes) = Len(g_filelist.nodes) + 1

\* the line of the last commit before line k, 0 if there is none: the record
\* whose node was allocated last names the line by its path
LastCommit(k) ==
    IF Len(g_filelist.nodes) = 2 THEN 0
    ELSE CHOOSE i \in 1..(k - 1) :
           /\ LinePath(SumfileLines[i]) = << g_filelist.nodes[Len(g_filelist.nodes)].key >>
           /\ \A m \in (i + 1)..(k - 1) :
                LinePath(SumfileLines[m]) # << g_filelist.nodes[Len(g_filelist.nodes)].key >>

\* the value that the metadata comments of the lines from..to give to
\* field key, the last one counting, or none
RECURSIVE MetaValue(_, _, _, _)
MetaValue(key, from, to, none) ==
    IF to < from THEN none
    ELSE LET line == SumfileLines[to]
             its == IF line.kind = "meta"
                    THEN SelectSeq(line.items, LAMBDA it : it.key = key /\ it.ok)
                    ELSE << >>
         IN  IF Len(its) > 0
             THEN (IF key = "target" THEN << its[Len(its)].str >> ELSE its[Len(its)].num)
             ELSE MetaValue(key, from, to - 1, none)

\* C34: a line that commits a record gives it the mtime, size and target of
\* the metadata comments since the commit before (0, 0 and no target
\* without such a comment) and leaves nothing buffered.
C34_MetadataToNextCommit ==
    [][ParseCommit =>
        LET k == linenum + 1
            j == LastCommit(k)
            new == g_filelist'.nodes[Len(g_filelist'.nodes)].value
        IN  /\ new.mtime = MetaValue("mtime", j + 1, k, 0)
            /\ new.size = MetaValue("size", j + 1, k, 0)
            /\ new.symlink = MetaValue("target", j + 1, k, << >>)
            /\ tempinfo' = FileInfo0("FS_UNSEEN")]_vars

\* the nodes of the subtree at z
RECURSIVE Subtree(_, _)
Subtree(tree, z) ==
    IF z = tree.nil THEN {}
    ELSE {z} \cup Subtree(tree, tree.nodes[z].left) \cup Subtree(tree, tree.nodes[z].right)

\* the numbers of black nodes on the paths from z down to a nil child
RECURSIVE BlackHeights(_, _)
BlackHeights(tree, z) ==
    IF z = tree.nil THEN {0}
    ELSE { h + (IF tree.nodes[z].red = 1 THEN 0 ELSE 1) :
             h \in BlackHeights(tree, tree.nodes[z].left)
                    \cup BlackHeights(tree, tree.nodes[z].right) }

\* C35: after every rb_insert and rb_delete from the empty tree, nil and
\* the root are black, no red node has a red child, all paths from the
\* root to a nil child have the same number of black nodes, the nodes
\* reachable from the root are as many as the size says, and rb_verify
\* returns 1.
C35_RedBlack ==
    pc = "test" =>
        LET tree == g_filelist
            top == tree.nodes[tree.root].left
        IN  /\ tree.nodes[tree.nil].red = 0
            /\ tree.nodes[top].red = 0
            /\ \A n \in Subtree(tree, top) :
                  tree.nodes[n].red = 1 =>
                      /\ tree.nodes[tree.nodes[n].left].red = 0
                      /\ tree.nodes[tree.nodes[n].right].red = 0
            /\ Cardinality(BlackHeights(tree, top)) = 1
            /\ Cardinality(Subtree(tree, top)) = tree.size
            /\ rb_verify(tree) = 1

\* a tree of three nodes, one of them red, that is left after a deletion
C35_Witness ==
    /\ pc = "test"
    /\ rb_size(g_filelist) = 3
    /\ Len(g_filelist.nodes) - 2 > 3
    /\ \E n \in Subtree(g_filelist, g_filelist.nodes[g_filelist.root].left) :
          g_filelist.nodes[n].red = 1

\* entries with equal keys come in the iteration in the order in which
\* rb_insert allocated their nodes
InsertionOrder(tree) ==
    LET walk == Iteration(tree)
    IN  \A i, j \in 1..Len(walk) :
            i < j /\ compare_keys(tree, tree.nodes[walk[i]].key, tree.nodes[walk[j]].key) = 0
                => walk[i] < walk[j]

\* C36: in every tree, after any sequence of rb_insert and rb_delete calls,
\* entries with equal keys are iterated in the order of their insertion; in
\* the digest index built by read_digestfile, entries with equal digests are
\* iterated in increasing order of their paths.
C36_EqualKeysInInsertionOrder ==
    /\ InsertionOrder(g_filelist)
    /\ InsertionOrder(g_filedigestmap)
    /\ LET walk == Iteration(g_filedigestmap)
       IN  \A i \in 1..(Len(walk) - 1) :
               digest_cmp(g_filedigestmap.nodes[walk[i]].key,
                          g_filedigestmap.nodes[walk[i + 1]].key) = 0
                   => strcmp(g_filedigestmap.nodes[walk[i]].value,
                             g_filedigestmap.nodes[walk[i + 1]].value) < 0

\* every insertion made, three entries left, all with one key, and an
\* entry inserted between two of them deleted
C36_Witness ==
    /\ pc = "test"
    /\ Len(g_filelist.nodes) - 2 = MaxInserts
    /\ rb_size(g_filelist) = 3
    /\ \A n \in LiveNodes(g_filelist) : g_filelist.nodes[n].key = Names[2]
    /\ \E n \in LiveNodes(g_filelist), m \in 3..Len(g_filelist.nodes) :
          m < n /\ m \notin LiveNodes(g_filelist) /\ \E k \in LiveNodes(g_filelist) : k < m

\* the records that hold the status
WithStatus(status) == { n \in Records(g_filelist) : Info(n).status = status }

\* C37: once the digest file is parsed, every counter is the number of
\* records that hold its status, and filelist_deleted is the number of
\* UNSEEN records.
C37_CountersMatch ==
    pc \notin { "start", "parse", "test", "escape", "unescape", "unescaped", "decoded" } =>
        /\ g_filelist_seen = Cardinality(WithStatus("FS_SEEN"))
        /\ g_filelist_new = Cardinality(WithStatus("FS_NEW"))
        /\ g_filelist_touched = Cardinality(WithStatus("FS_TOUCHED"))
        /\ g_filelist_changed = Cardinality(WithStatus("FS_CHANGED"))
        /\ g_filelist_error = Cardinality(WithStatus("FS_ERROR"))
        /\ g_filelist_copied = Cardinality(WithStatus("FS_COPIED"))
        /\ g_filelist_renamed = Cardinality(WithStatus("FS_RENAMED"))
        /\ g_filelist_oldpath = Cardinality(WithStatus("FS_OLDPATH"))
        /\ g_filelist_skipped = Cardinality(WithStatus("FS_SKIPPED"))
        /\ filelist_deleted(g_filelist, counters) = Cardinality(WithStatus("FS_UNSEEN"))

C37_Witness ==
    /\ pc = "review"
    /\ g_filelist_renamed > 0
    /\ g_filelist_oldpath > 0
    /\ filelist_deleted(g_filelist, counters) > 0
    /\ WithStatus("FS_UNSEEN") # {}

\* C38: at the end of a scan every record of the digest file that is not
\* SKIPPED and whose path no longer exists on disk is UNSEEN, so that the
\* deleted query lists it, or is the oldpath of a RENAMED record.
C38_DeletionReported ==
    pc \in {"scanned", "review"}
    => \A n \in Records(g_filelist) \ NewFiles :
          (Info(n).status # "FS_SKIPPED" /\ mylstat(fs, Path(n)) = 0)
          => \/ Info(n).status = "FS_UNSEEN"
             \/ \E m \in Records(g_filelist) :
                   /\ Info(m).status = "FS_RENAMED"
                   /\ Info(m).oldpath = << Path(n) >>

\* C39: the classifier never sets SEEN for a regular file whose mtime
\* differs from the mtime of its UNSEEN record by more than the modify
\* window, however large the difference is.
C39_TrueDifference ==
    [][ClassifyingUnseenFile
       => LET rec == Info(RecordOf(CurPath))
              st == StatOf(fs, CurStat)
          IN  labs(st.st_mtime - rec.mtime) > gopt.modify_window
              => InfoAfter.status # "FS_SEEN"]_vars

\* C40: when cmd_write writes the digest file, every record it does not
\* pass over has a digest or a symlink target, and the write does not end
\* in formatting an absent digest.
C40_NoAbsentDigest ==
    [][(pc \in {"scanned", "review"} /\ fs' # fs)
       => /\ \A n \in Records(g_filelist) :
                ~write_skips(Info(n)) => Info(n).digest # << >> \/ Info(n).symlink # << >>
          /\ pc' # "crash"]_vars

====
